---- MODULE Spec2Model ----
(***************************************************************************)
(* VibeCoding extension: the versioned file store (src/fileManager.ts),    *)
(* the error-recovery engine (src/errorRecovery.ts) and the task pipeline  *)
(* (src/autoCoder.ts) as one state machine.  An asynchronous method is cut *)
(* at its awaits: one action per continuation.                             *)
(***************************************************************************)
EXTENDS Integers, Sequences, FiniteSets, TLC

\* ------------------------------------------------------------------ bounds
MaxClock == 1       \* the millisecond clock takes the values 0..MaxClock
MaxOps == 3         \* store calls a client issues in SpecStore
MaxStarts == 2      \* startAutoMode calls made in SpecPipe
MaxTasks == 2       \* tasks the parser returns for one run
MaxWrites == 5   \* writeFile calls the runs of SpecPipe issue
MaxFixCalls == 1 \* analyzeAndFix calls made in SpecRecovery
MaxFaults == 1   \* operations of the environment that fail in one behaviour
MaxErrLen == 4      \* tokens of an error text given to analyzeAndFix
MaxBuilds == 3      \* createLLMClient calls made in SpecClient
MaxAsks == 2        \* generateCode calls made in SpecClient
MaxStops == 1       \* stopAuto requests made in SpecPipe
MaxCmds == 3        \* runCommand calls made in SpecTerm

\* ---------------------------------------------------------------- constants
MaxAttempts == 3    \* while (attempt < 3)

\* ------------------------------------------------------------------ values
\* A relative path is the sequence of its name and separator tokens.
SrcA == <<"src", "/", "a.py">>
SrcB == <<"src", "/", "b.py">>
StorePaths == {SrcA, SrcB}
Contents == {"x=1", "x=2"}
NoFile == "<absent>"
FMs == {"ctl", "rec"}          \* VibeController.fileManager, ErrorRecovery.fileManager
Calls == {"A", "B"}            \* two startAutoMode calls on one AutoCoder
Threads == Calls \cup {"ui"}   \* and one UI command

VARIABLES
  disk,      \* workspace files: path -> content
  hist,      \* files of .vibe/history: name -> content
  durable,   \* .vibe/changeHistory.json: [exists, log]
  mem,       \* FileManager.changeHistory of each instance
  initpc,    \* position of each instance's initialize()
  now,       \* the clock read by new Date() / Date.now()
  wr,        \* the writeFile call in flight of each thread
  rv,        \* the revertToVersion call in flight of each thread
  ret,       \* what the last store call of each thread returned
  pre,       \* history: content of the file when a version was recorded
  ops,       \* store calls issued so far by the clients of the controller
  dirs,      \* directories created in the workspace
  completed, \* history: the records of the writeFile calls that resolved
  isRunning, \* AutoCoder.isRunning
  autoSave,  \* AutoCoderConfig.autoSave
  call,      \* the startAutoMode call of each thread: position and locals
  res,       \* how the last startAutoMode call of each thread ended
  starts,    \* startAutoMode calls made so far
  rc,        \* the analyzeAndFix call in flight of each thread
  faults,    \* operations of the environment that have failed so far
  settings,  \* the configuration of the section: key -> value
  reachable, \* the Ollama endpoints that answer a probe
  llm,       \* the llm field of VibeController, AutoCoder and ErrorRecovery
  asked,     \* the generateCode calls made: by whom, to which client object
  made,      \* what the last createLLMClient call did
  built,     \* createLLMClient calls made so far
  upd,       \* the updateProvider call in flight
  stops,     \* stopAuto requests made so far
  terminal,  \* TerminalManager.terminal: 0 for undefined, else the terminal
  created,   \* terminals created so far
  exitStatus,\* exitStatus of each terminal
  runs,      \* the runCommand calls made, in the order of the calls
  asking     \* the findMatchingPattern call: its argument and its result

storeVars == <<disk, hist, durable, mem, initpc, now, wr, rv, ret, pre, ops, dirs, completed>>
pipeVars == <<isRunning, autoSave, call, res, starts>>
clientVars == <<settings, reachable, llm, asked, made, built, upd, stops>>
termVars == <<terminal, created, exitStatus, runs>>
vars == <<storeVars, pipeVars, rc, faults, clientVars, termVars, asking>>

\* an operation of the environment settles: it succeeds, or it fails
Outcomes == IF faults < MaxFaults THEN BOOLEAN ELSE {TRUE}
Settled(ok) == faults' = IF ok THEN faults ELSE faults + 1

\* ------------------------------------------------------------- FileManager
\* relativePath.replace(/[\/:]/g, '_')
SafeName(relativePath) ==
  [i \in DOMAIN relativePath |->
     IF relativePath[i] \in {"/", ":"} THEN "_" ELSE relativePath[i]]

\* `${safeName}_v${version}_${timestamp}` under historyDir
HistoryFileName(relativePath, version, timestamp) ==
  <<SafeName(relativePath), version, timestamp>>

RECURSIVE SelectPath(_, _)
\* changeHistory.filter(r => r.filePath === relativePath)
SelectPath(log, relativePath) ==
  IF log = <<>> THEN <<>>
  ELSE IF Head(log).filePath = relativePath
       THEN <<Head(log)>> \o SelectPath(Tail(log), relativePath)
       ELSE SelectPath(Tail(log), relativePath)

RECURSIVE MaxVersion(_)
\* Math.max(...existing.map(r => r.version))
MaxVersion(existing) ==
  IF Len(existing) = 1 THEN existing[1].version
  ELSE LET m == MaxVersion(Tail(existing))
       IN IF existing[1].version > m THEN existing[1].version ELSE m

\* the version is taken from the whole log, not from the records of the path
NextVersion_AllPaths(log, relativePath) ==
  IF Len(log) > 0 THEN MaxVersion(log) + 1 ELSE 1

\* existing.length > 0 ? max + 1 : 1
NextVersion(log, relativePath) ==
  LET existing == SelectPath(log, relativePath)
  IN IF Len(existing) > 0 THEN MaxVersion(existing) + 1 ELSE 1

ChangeRecord(relativePath, version, timestamp, action) ==
  [filePath |-> relativePath, version |-> version, timestamp |-> timestamp,
   originalPath |-> HistoryFileName(relativePath, version, timestamp),
   action |-> action]

IdleWrite ==
  [pc |-> "idle", fm |-> "ctl", path |-> <<>>, content |-> "", version |-> 0,
   ts |-> 0, action |-> "created", old |-> "", enc |-> <<>>, len0 |-> 0]

\* writeFile up to its first await: version, timestamp and backup name are fixed
WriteFrame(f, relativePath, content) ==
  [pc |-> "stat", fm |-> f, path |-> relativePath, content |-> content,
   version |-> NextVersion(mem[f], relativePath), ts |-> now,
   action |-> "created", old |-> "", enc |-> <<>>, len0 |-> Len(mem[f])]

IdleRevert == [pc |-> "idle", fm |-> "ctl", path |-> <<>>, version |-> 0]

IdleRet == [kind |-> "none", text |-> "", log |-> <<>>]

HistoryDir == <<".vibe", "/", "history">>
SourceDir == <<"src">>

Quiescent ==
  /\ \A f \in FMs : initpc[f] = "done"
  /\ \A t \in Threads : wr[t].pc = "idle" /\ rv[t].pc = "idle"

\* initialize(): createDirectory(historyDir) resolved
InitMkdir(f) ==
  /\ initpc[f] = "mkdir"
  /\ initpc' = [initpc EXCEPT ![f] = "load"]
  /\ dirs' = dirs \cup {HistoryDir}
  /\ UNCHANGED <<disk, hist, durable, mem, now, wr, rv, ret, pre, ops, completed>>
  /\ UNCHANGED faults

\* initialize(): readFile(historyFile) settled; the catch branch starts saveHistory
InitLoad(f) ==
  /\ initpc[f] = "load"
  /\ IF durable.exists
     THEN /\ mem' = [mem EXCEPT ![f] = durable.log]
          /\ initpc' = [initpc EXCEPT ![f] = "done"]
     ELSE /\ mem' = [mem EXCEPT ![f] = <<>>]
          /\ initpc' = [initpc EXCEPT ![f] = "save"]
  /\ UNCHANGED <<disk, hist, durable, now, wr, rv, ret, pre, ops, dirs, completed>>
  /\ UNCHANGED faults

\* initialize(): saveHistory() of the empty log resolved
InitSave(f) ==
  /\ initpc[f] = "save"
  /\ durable' = [exists |-> TRUE, log |-> <<>>]
  /\ initpc' = [initpc EXCEPT ![f] = "done"]
  /\ UNCHANGED <<disk, hist, mem, now, wr, rv, ret, pre, ops, dirs, completed>>
  /\ UNCHANGED faults

\* this.changeHistory.push({...}) followed by the call of saveHistory(), which
\* encodes the log before its own await
PushRecord(w) ==
  LET rec == ChangeRecord(w.path, w.version, w.ts, w.action)
      log == Append(mem[w.fm], rec)
  IN /\ mem' = [mem EXCEPT ![w.fm] = log]
     /\ pre' = [p \in DOMAIN pre \cup {<<w.path, w.version>>} |->
                  IF p = <<w.path, w.version>>
                  THEN (IF w.path \in DOMAIN disk THEN disk[w.path] ELSE NoFile)
                  ELSE pre[p]]

\* writeFile: fileExists(fileUri) settled
writeFileStat(t) ==
  /\ wr[t].pc = "stat"
  /\ IF wr[t].path \in DOMAIN disk
     THEN /\ wr' = [wr EXCEPT ![t].pc = "read", ![t].action = "modified"]
          /\ UNCHANGED <<mem, pre>>
     ELSE /\ PushRecord(wr[t])
          /\ wr' = [wr EXCEPT ![t].pc = "save", ![t].enc = mem'[wr[t].fm]]
  /\ UNCHANGED <<disk, hist, durable, initpc, now, rv, ret, ops, dirs, completed>>
  /\ UNCHANGED faults

\* writeFile: oldContent = await this.readFile(relativePath)
writeFileRead(t) ==
  /\ wr[t].pc = "read"
  /\ wr' = [wr EXCEPT ![t].pc = "bak", ![t].old = disk[wr[t].path]]
  /\ UNCHANGED <<disk, hist, durable, mem, initpc, now, rv, ret, pre, ops, dirs, completed>>
  /\ UNCHANGED faults

\* the backup is written from the new content: a post-image
writeFileBackup_PostImage(t) ==
  /\ wr[t].pc = "bak"
  /\ hist' = [n \in DOMAIN hist \cup
                 {HistoryFileName(wr[t].path, wr[t].version, wr[t].ts)} |->
                 IF n = HistoryFileName(wr[t].path, wr[t].version, wr[t].ts)
                 THEN wr[t].content ELSE hist[n]]
  /\ PushRecord(wr[t])
  /\ wr' = [wr EXCEPT ![t].pc = "save", ![t].enc = mem'[wr[t].fm]]
  /\ UNCHANGED <<disk, durable, initpc, now, rv, ret, ops, dirs, completed>>
  /\ UNCHANGED faults

\* writeFile: the backup file is written (or the write fails and writeFile rejects)
writeFileBackup(t) ==
  /\ wr[t].pc = "bak"
  /\ \E ok \in Outcomes :
       /\ Settled(ok)
       /\ IF ok
          THEN /\ hist' = [n \in DOMAIN hist \cup
                             {HistoryFileName(wr[t].path, wr[t].version, wr[t].ts)} |->
                             IF n = HistoryFileName(wr[t].path, wr[t].version, wr[t].ts)
                             THEN wr[t].old ELSE hist[n]]
               /\ PushRecord(wr[t])
               /\ wr' = [wr EXCEPT ![t].pc = "save", ![t].enc = mem'[wr[t].fm]]
          ELSE /\ wr' = [wr EXCEPT ![t].pc = "err"]
               /\ UNCHANGED <<hist, mem, pre>>
  /\ UNCHANGED <<disk, durable, initpc, now, rv, ret, ops, dirs, completed>>

\* writeFile: saveHistory() settled; on success the edit is submitted
writeFileSave(t) ==
  /\ wr[t].pc = "save"
  /\ \E ok \in Outcomes :
       /\ Settled(ok)
       /\ IF ok
          THEN /\ durable' = [exists |-> TRUE, log |-> wr[t].enc]
               /\ wr' = [wr EXCEPT ![t].pc = "apply"]
          ELSE /\ wr' = [wr EXCEPT ![t].pc = "err"]
               /\ UNCHANGED durable
  /\ UNCHANGED <<disk, hist, mem, initpc, now, rv, ret, pre, ops, dirs, completed>>

\* a failed edit takes its record back out of the log
writeFileApply_RollBack(t) ==
  /\ wr[t].pc = "apply"
  /\ \E success \in Outcomes :
       /\ Settled(success)
       /\ IF success
          THEN /\ disk' = [p \in DOMAIN disk \cup {wr[t].path} |->
                             IF p = wr[t].path THEN wr[t].content ELSE disk[p]]
               /\ wr' = [wr EXCEPT ![t].pc = "ok"]
               /\ completed' = completed \cup
                    {ChangeRecord(wr[t].path, wr[t].version, wr[t].ts, wr[t].action)}
               /\ UNCHANGED mem
          ELSE /\ wr' = [wr EXCEPT ![t].pc = "err"]
               /\ mem' = [mem EXCEPT ![wr[t].fm] = SubSeq(@, 1, Len(@) - 1)]
               /\ UNCHANGED <<disk, completed>>
  /\ UNCHANGED <<hist, durable, initpc, now, rv, ret, pre, ops, dirs>>

\* writeFile: applyEdit settled; success === false throws
writeFileApply(t) ==
  /\ wr[t].pc = "apply"
  /\ \E success \in Outcomes :
       /\ Settled(success)
       /\ IF success
          THEN /\ disk' = [p \in DOMAIN disk \cup {wr[t].path} |->
                             IF p = wr[t].path THEN wr[t].content ELSE disk[p]]
               /\ wr' = [wr EXCEPT ![t].pc = "ok"]
               /\ completed' = completed \cup
                    {ChangeRecord(wr[t].path, wr[t].version, wr[t].ts, wr[t].action)}
          ELSE /\ wr' = [wr EXCEPT ![t].pc = "err"]
               /\ UNCHANGED <<disk, completed>>
  /\ UNCHANGED <<hist, durable, mem, initpc, now, rv, ret, pre, ops, dirs>>

\* changeHistory.find(r => r.filePath === filePath && r.version === version)
RECURSIVE FindRecord(_, _, _)
FindRecord(log, filePath, version) ==
  IF log = <<>> THEN <<>>
  ELSE IF Head(log).filePath = filePath /\ Head(log).version = version
       THEN <<Head(log)>>
       ELSE FindRecord(Tail(log), filePath, version)

\* the argument of getChangeHistory() called without one
Omitted == <<"<undefined>">>

\* a history listed newest first
getChangeHistory_NewestFirst(f, filePath) ==
  LET log == IF filePath # Omitted /\ filePath # <<>>
             THEN SelectPath(mem[f], filePath) ELSE mem[f]
  IN [i \in 1..Len(log) |-> log[Len(log) + 1 - i]]

\* getChangeHistory(filePath?): `filePath ? filter : copy`; the omitted
\* argument and the empty string are both falsy
getChangeHistory(f, filePath) ==
  IF filePath # Omitted /\ filePath # <<>> THEN SelectPath(mem[f], filePath) ELSE mem[f]

\* the clock advances
Tick ==
  /\ now < MaxClock
  /\ now' = now + 1
  /\ UNCHANGED <<disk, hist, durable, mem, initpc, wr, rv, ret, pre, ops, dirs, completed>>
  /\ UNCHANGED faults

\* readFile(relativePath): the content, or the rejection of fs.readFile
readFile(relativePath) ==
  IF relativePath \in DOMAIN disk
  THEN [kind |-> "content", text |-> disk[relativePath], log |-> <<>>]
  ELSE [kind |-> "NotFound", text |-> "", log |-> <<>>]

\* the lookup ignores the version: the first record of the path is taken
RevertSource_AnyVersion(log, filePath, version) ==
  LET s == SelectPath(log, filePath) IN IF s = <<>> THEN <<>> ELSE <<s[Len(s)]>>

\* the record revertToVersion reads its content from
RevertSource(log, filePath, version) == FindRecord(log, filePath, version)

\* a lenient revert: without a record of the version, the latest record of
\* the path is restored
revertToVersion_Fallback(t, f, filePath, version) ==
  LET s == SelectPath(mem[f], filePath)
      found == RevertSource(mem[f], filePath, version)
  IN IF found = <<>> /\ s = <<>>
     THEN /\ ret' = [ret EXCEPT ![t] = [kind |-> "VersionNotFound", text |-> "", log |-> <<>>]]
          /\ UNCHANGED rv
     ELSE /\ rv' = [rv EXCEPT ![t] = [pc |-> "read", fm |-> f, path |-> filePath,
                                      version |-> IF found = <<>> THEN s[Len(s)].version
                                                  ELSE version]]
          /\ ret' = [ret EXCEPT ![t] = IdleRet]

\* revertToVersion up to its first await: the lookup, and the throw when it fails
revertToVersion(t, f, filePath, version) ==
  IF RevertSource(mem[f], filePath, version) = <<>>
  THEN /\ ret' = [ret EXCEPT ![t] = [kind |-> "VersionNotFound", text |-> "", log |-> <<>>]]
       /\ UNCHANGED rv
  ELSE /\ rv' = [rv EXCEPT ![t] = [pc |-> "read", fm |-> f, path |-> filePath,
                                   version |-> version]]
       /\ ret' = [ret EXCEPT ![t] = IdleRet]

\* a destructive revert: the records after the target version are dropped
revertToVersionRead_Truncate(t) ==
  /\ rv[t].pc = "read"
  /\ LET found == RevertSource(mem[rv[t].fm], rv[t].path, rv[t].version)
     IN /\ found # <<>> /\ found[1].originalPath \in DOMAIN hist
        /\ mem' = [mem EXCEPT ![rv[t].fm] = SubSeq(@, 1, Len(@) - 1)]
        /\ wr' = [wr EXCEPT ![t] =
                    [WriteFrame(rv[t].fm, rv[t].path, hist[found[1].originalPath])
                       EXCEPT !.version = rv[t].version + 1, !.len0 = Len(mem'[rv[t].fm])]]
        /\ rv' = [rv EXCEPT ![t].pc = "write"]
  /\ UNCHANGED <<disk, hist, durable, initpc, now, ret, pre, ops, dirs, completed>>
  /\ UNCHANGED faults

\* a version without a backup file is restored as the empty text
revertToVersionRead_EmptyRestore(t) ==
  /\ rv[t].pc = "read"
  /\ LET found == RevertSource(mem[rv[t].fm], rv[t].path, rv[t].version)
     IN /\ found # <<>>
        /\ wr' = [wr EXCEPT ![t] =
                    WriteFrame(rv[t].fm, rv[t].path,
                               IF found[1].originalPath \in DOMAIN hist
                               THEN hist[found[1].originalPath] ELSE "")]
        /\ rv' = [rv EXCEPT ![t].pc = "write"]
        /\ UNCHANGED ret
  /\ UNCHANGED <<disk, hist, durable, mem, initpc, now, pre, ops, dirs, completed>>
  /\ UNCHANGED faults

\* revertToVersion: fs.readFile(record.originalPath) settled; writeFile is called
revertToVersionRead(t) ==
  /\ rv[t].pc = "read"
  /\ LET found == RevertSource(mem[rv[t].fm], rv[t].path, rv[t].version)
     IN IF found # <<>> /\ found[1].originalPath \in DOMAIN hist
        THEN /\ wr' = [wr EXCEPT ![t] =
                         WriteFrame(rv[t].fm, rv[t].path, hist[found[1].originalPath])]
             /\ rv' = [rv EXCEPT ![t].pc = "write"]
             /\ UNCHANGED ret
        ELSE /\ ret' = [ret EXCEPT ![t] = [kind |-> "ReadFailed", text |-> "", log |-> <<>>]]
             /\ rv' = [rv EXCEPT ![t] = IdleRevert]
             /\ UNCHANGED wr
  /\ UNCHANGED <<disk, hist, durable, mem, initpc, now, pre, ops, dirs, completed>>
  /\ UNCHANGED faults

\* revertToVersion: its writeFile settled
revertToVersionDone(t) ==
  /\ rv[t].pc = "write"
  /\ wr[t].pc \in {"ok", "err"}
  /\ ret' = [ret EXCEPT ![t] =
               [kind |-> IF wr[t].pc = "ok" THEN "reverted" ELSE "WriteFailed",
                text |-> "", log |-> <<>>]]
  /\ rv' = [rv EXCEPT ![t] = IdleRevert]
  /\ wr' = [wr EXCEPT ![t] = IdleWrite]
  /\ UNCHANGED <<disk, hist, durable, mem, initpc, now, pre, ops, dirs, completed>>
  /\ UNCHANGED faults

\* ------------------------------------------------------------ ErrorRecovery
\* An error text is a sequence of tokens: the literal pieces the patterns look
\* for, the quote, the newline and ordinary characters.
MNF == "ModuleNotFoundError: No module named "
CFM == "Cannot find module "
Quote == "'"
NL == "<newline>"
Backslash == "<backslash>"

Min(S) == CHOOSE x \in S : \A y \in S : x <= y
Max(S) == CHOOSE x \in S : \A y \in S : x >= y

LiteralAt(text, i, lit) ==
  /\ i >= 1
  /\ i + Len(lit) - 1 <= Len(text)
  /\ \A k \in 1..Len(lit) : text[i + k - 1] = lit[k]

\* what the group of a pattern may hold: (.+) is any characters but the
\* newline, (\\w+) as written in the source is a backslash followed by w's
GroupOk(group, cls) ==
  /\ Len(group) >= 1
  /\ IF cls = "any"
     THEN \A k \in 1..Len(group) : group[k] # NL
     ELSE /\ Len(group) >= 2
          /\ group[1] = Backslash
          /\ \A k \in 2..Len(group) : group[k] = "w"

\* regex.exec(errorMsg) for a pattern  pre (group) suf : the leftmost start,
\* then the longest group; <<>> when nothing matches, else <<m[1]>>
RegexExec(text, pat) ==
  LET Ends(i) == {n \in 1..Len(text) :
                    /\ i + Len(pat.pre) + n - 1 <= Len(text)
                    /\ GroupOk(SubSeq(text, i + Len(pat.pre), i + Len(pat.pre) + n - 1), pat.cls)
                    /\ LiteralAt(text, i + Len(pat.pre) + n, pat.suf)}
      begins == {i \in 1..Len(text) : LiteralAt(text, i, pat.pre) /\ Ends(i) # {}}
  IN IF begins = {} THEN <<>>
     ELSE LET i == Min(begins)
              n == Max(Ends(i))
          IN <<SubSeq(text, i + Len(pat.pre), i + Len(pat.pre) + n - 1)>>

PyModulePattern == [pre |-> <<MNF, Quote>>, cls |-> "any", suf |-> <<Quote>>]
NodeModulePattern == [pre |-> <<CFM, Quote>>, cls |-> "any", suf |-> <<Quote>>]

\* errorPatterns, in insertion order; head and tail are the template around $1
errorPatterns ==
  << [pat |-> PyModulePattern,
      head |-> "Install the missing Python module '", tail |-> "' and adjust imports."],
     [pat |-> [pre |-> <<"SyntaxError: ">>, cls |-> "any", suf |-> <<>>],
      head |-> "Fix the syntax error: ", tail |-> ""],
     [pat |-> NodeModulePattern,
      head |-> "Install or require the Node.js module '", tail |-> "'."],
     [pat |-> [pre |-> <<"TypeError: ">>, cls |-> "any", suf |-> <<" is not a function">>],
      head |-> "Ensure ", tail |-> " is a callable and imported correctly."],
     [pat |-> [pre |-> <<"ReferenceError: ">>, cls |-> "backslash-w", suf |-> <<" is not defined">>],
      head |-> "Define or import the missing variable/function ", tail |-> "."],
     [pat |-> [pre |-> <<"ImportError: ">>, cls |-> "any", suf |-> <<>>],
      head |-> "Fix the import error: ", tail |-> ""],
     [pat |-> [pre |-> <<"AttributeError: ">>, cls |-> "any", suf |-> <<>>],
      head |-> "Fix the attribute error: ", tail |-> ""],
     [pat |-> [pre |-> <<"IndentationError: ">>, cls |-> "any", suf |-> <<>>],
      head |-> "Fix the indentation: ", tail |-> ""] >>

\* checkForDependencyError: the install command, or <<>> for null
checkForDependencyError(errorMsg) ==
  LET py == RegexExec(errorMsg, PyModulePattern)
      nd == RegexExec(errorMsg, NodeModulePattern)
  IN IF py # <<>> THEN <<"pip install ">> \o py[1]
     ELSE IF nd # <<>> THEN <<"npm install ">> \o nd[1]
     ELSE <<>>

\* String.prototype.replace(string, string) reads its second argument as a
\* replacement pattern: $$ stands for $, $' for the part of the template after
\* the match; a $ before anything else stands for itself
Dollar == "$"

RECURSIVE Replacement(_, _)
Replacement(repl, after) ==
  IF Len(repl) < 2 THEN repl
  ELSE IF repl[1] = Dollar /\ repl[2] = Dollar
       THEN <<Dollar>> \o Replacement(SubSeq(repl, 3, Len(repl)), after)
  ELSE IF repl[1] = Dollar /\ repl[2] = Quote
       THEN <<after>> \o Replacement(SubSeq(repl, 3, Len(repl)), after)
  ELSE <<repl[1]>> \o Replacement(Tail(repl), after)

RECURSIVE FirstMatch(_, _)
FirstMatch(errorMsg, k) ==
  IF k > Len(errorPatterns) THEN <<>>
  ELSE LET m == RegexExec(errorMsg, errorPatterns[k].pat)
       IN IF m # <<>>
          THEN <<errorPatterns[k].head>>
                 \o Replacement(m[1], errorPatterns[k].tail)
                 \o <<errorPatterns[k].tail>>
          ELSE FirstMatch(errorMsg, k + 1)

\* findMatchingPattern: the template of the first pattern that matches with $1
\* replaced, or <<>> for null
findMatchingPattern(errorMsg) == FirstMatch(errorMsg, 1)

\* the texts given to the classifier on its own: two of the literal pieces
\* with an open group, one with a closing quote, the quote, the dollar sign
\* and an ordinary character
ClassTokens == {"SyntaxError: ", "ImportError: ", MNF, Quote, Dollar, "p"}
ClassTexts == UNION {[1..n -> ClassTokens] : n \in 0..MaxErrLen}

NotAsked == [errorMsg |-> <<>>, returned |-> FALSE, pattern |-> <<>>]

\* a call of findMatchingPattern(errorMsg) and its return value
CallFindMatchingPattern(text) ==
  /\ ~asking.returned
  /\ asking.errorMsg = text
  /\ asking' = [errorMsg |-> text, returned |-> TRUE,
                pattern |-> findMatchingPattern(text)]
  /\ UNCHANGED faults

\* the prompt of step 5, as its parts in order
FixPrompt(errorMsg, original) ==
  LET pattern == findMatchingPattern(errorMsg)
  IN IF pattern # <<>>
     THEN [lead |-> pattern, context |-> original, error |-> errorMsg]
     ELSE [lead |-> <<"Fix this error: ">> \o errorMsg, context |-> original, error |-> <<>>]

\* `Command failed: ${command}, Exit code: ${code}` of TerminalManager.runCommand
CommandFailedMessage(command) ==
  <<"Command failed: ">> \o command \o <<", Exit code: ", "1">>

\* ------------------------------------------------ a client of one FileManager
\* The history commands of the controller call the store of the controller.
CallWriteFile(t, relativePath, content) ==
  /\ Quiescent /\ ops < MaxOps
  /\ wr' = [wr EXCEPT ![t] = WriteFrame("ctl", relativePath, content)]
  /\ ret' = [ret EXCEPT ![t] = IdleRet]
  /\ ops' = ops + 1
  /\ UNCHANGED <<disk, hist, durable, mem, initpc, now, rv, pre, dirs, completed>>
  /\ UNCHANGED faults

WriteFileReturn(t) ==
  /\ rv[t].pc = "idle"
  /\ wr[t].pc \in {"ok", "err"}
  /\ ret' = [ret EXCEPT ![t] =
               [kind |-> IF wr[t].pc = "ok" THEN "written" ELSE "WriteFailed",
                text |-> "", log |-> <<>>]]
  /\ wr' = [wr EXCEPT ![t] = IdleWrite]
  /\ UNCHANGED <<disk, hist, durable, mem, initpc, now, rv, pre, ops, dirs, completed>>
  /\ UNCHANGED faults

CallRevertToVersion(t, filePath, version) ==
  /\ Quiescent /\ ops < MaxOps
  /\ revertToVersion(t, "ctl", filePath, version)
  /\ ops' = ops + 1
  /\ UNCHANGED <<disk, hist, durable, mem, initpc, now, wr, pre, dirs, completed>>
  /\ UNCHANGED faults

CallReadFile(t, relativePath) ==
  /\ Quiescent /\ ops < MaxOps
  /\ ret' = [ret EXCEPT ![t] = readFile(relativePath)]
  /\ ops' = ops + 1
  /\ UNCHANGED <<disk, hist, durable, mem, initpc, now, wr, rv, pre, dirs, completed>>
  /\ UNCHANGED faults

CallGetChangeHistory(t, filePath) ==
  /\ Quiescent /\ ops < MaxOps
  /\ ret' = [ret EXCEPT ![t] =
               [kind |-> IF filePath = Omitted THEN "historyAll" ELSE "history",
                text |-> "", log |-> getChangeHistory("ctl", filePath)]]
  /\ ops' = ops + 1
  /\ UNCHANGED <<disk, hist, durable, mem, initpc, now, wr, rv, pre, dirs, completed>>
  /\ UNCHANGED faults

\* ------------------------------------------------------------------- Init
\* A workspace as an earlier session can have left it.
EmptyFcn == [x \in {} |-> ""]

FreshWorkspace ==
  /\ disk = EmptyFcn /\ hist = EmptyFcn /\ pre = EmptyFcn
  /\ durable = [exists |-> FALSE, log |-> <<>>]
  /\ dirs = {} /\ completed = {}

UntrackedFile ==
  /\ disk = [p \in {SrcA} |-> "x=1"] /\ hist = EmptyFcn /\ pre = EmptyFcn
  /\ durable = [exists |-> FALSE, log |-> <<>>]
  /\ dirs = {SourceDir} /\ completed = {}

EarlierSession ==
  /\ disk = [p \in {SrcA} |-> "x=2"]
  /\ hist = [n \in {HistoryFileName(SrcA, 2, 0)} |-> "x=1"]
  /\ pre = [k \in {<<SrcA, 1>>, <<SrcA, 2>>} |-> IF k[2] = 1 THEN NoFile ELSE "x=1"]
  /\ durable = [exists |-> TRUE,
                log |-> <<ChangeRecord(SrcA, 1, 0, "created"),
                          ChangeRecord(SrcA, 2, 0, "modified")>>]
  /\ dirs = {SourceDir, HistoryDir}
  /\ completed = {ChangeRecord(SrcA, 1, 0, "created"), ChangeRecord(SrcA, 2, 0, "modified")}

InitStore ==
  /\ FreshWorkspace \/ UntrackedFile \/ EarlierSession
  /\ mem = [f \in FMs |-> <<>>]
  /\ initpc = [f \in FMs |-> "mkdir"]
  /\ now = 0
  /\ wr = [t \in Threads |-> IdleWrite]
  /\ rv = [t \in Threads |-> IdleRevert]
  /\ ret = [t \in Threads |-> IdleRet]
  /\ ops = 0

\* the continuations of initialize() and writeFile(), and the clock
StoreStep ==
  \/ \E f \in FMs : InitMkdir(f) \/ InitLoad(f) \/ InitSave(f)
  \/ \E t \in Threads :
       \/ writeFileStat(t) \/ writeFileRead(t) \/ writeFileBackup(t)
       \/ writeFileSave(t) \/ writeFileApply(t)

RevertStep == \E t \in Threads : revertToVersionRead(t) \/ revertToVersionDone(t)

\* the texts the LLM client answers with: for a task's prompt, for a fix prompt
GeneratedCode == {"x=1"}
FixedCode == {"x=2"}

\* ---------------------------------------------------------- TerminalManager
\* the exit codes of a command and of a terminal's shell process
ExitCodes == {0, 1}

\* the terminals a TerminalManager can have created
Terminals == 1..MaxCmds

\* Terminal.exitStatus: <<>> for undefined while the shell process lives,
\* <<code>> once it has exited
NoExitStatus == <<>>

\* a runCommand call: the terminal it captured, whether its interval timer is
\* set, how its promise stands and how often it was settled, and, for the
\* command typed into the shell, its exit code once it has finished
RunFrame(term) ==
  [terminal |-> term, timer |-> TRUE, promise |-> "pending", settles |-> 0,
   finished |-> <<>>]

\* ensureTerminal(workspacePath): a terminal is created when there is none or
\* when the one held has an exit status; else the one held is returned
ensureTerminal ==
  IF terminal = 0 \/ exitStatus[terminal] # NoExitStatus
  THEN /\ terminal' = created + 1
       /\ created' = created + 1
  ELSE UNCHANGED <<terminal, created>>

\* runCommand(command, workspacePath) up to the return of the promise:
\* ensureTerminal, sendText, setInterval
runCommand ==
  /\ Len(runs) < MaxCmds
  /\ ensureTerminal
  /\ runs' = Append(runs, RunFrame(terminal'))
  /\ UNCHANGED exitStatus
  /\ UNCHANGED faults

\* the interval callback of call k: nothing while the terminal has no exit
\* status; else clearInterval, and resolve on code 0, reject on any other
checkExit(k) ==
  /\ k \in 1..Len(runs)
  /\ runs[k].timer
  /\ IF exitStatus[runs[k].terminal] # NoExitStatus
     THEN runs' = [runs EXCEPT ![k] =
                     [@ EXCEPT !.timer = FALSE,
                               !.settles = @ + 1,
                               !.promise = IF exitStatus[runs[k].terminal][1] = 0
                                           THEN "resolved" ELSE "rejected"]]
     ELSE UNCHANGED runs
  /\ UNCHANGED <<terminal, created, exitStatus>>
  /\ UNCHANGED faults

\* the shell of a terminal runs the lines sent to it one after the other: the
\* command of call k finishes with a code, and the shell goes on living
CommandFinishes(k, code) ==
  /\ k \in 1..Len(runs)
  /\ runs[k].finished = <<>>
  /\ exitStatus[runs[k].terminal] = NoExitStatus
  /\ \A j \in 1..(k - 1) :
       runs[j].terminal = runs[k].terminal => runs[j].finished # <<>>
  /\ runs' = [runs EXCEPT ![k].finished = <<code>>]
  /\ UNCHANGED <<terminal, created, exitStatus>>
  /\ UNCHANGED faults

\* the shell process of a terminal exits (the terminal is closed, or a line
\* sent to it ends the shell): exitStatus gets its value
TerminalExits(term, code) ==
  /\ term \in 1..created
  /\ exitStatus[term] = NoExitStatus
  /\ exitStatus' = [exitStatus EXCEPT ![term] = <<code>>]
  /\ UNCHANGED <<terminal, created, runs>>
  /\ UNCHANGED faults

\* new TerminalManager(context, logger)
TerminalManager ==
  /\ terminal = 0
  /\ created = 0
  /\ exitStatus = [term \in Terminals |-> NoExitStatus]
  /\ runs = <<>>

\* ------------------------------------------ createLLMClient, VibeController
\* the provider names of the switch of createLLMClient
ProviderTable ==
  {"ollama", "openai", "huggingface", "grok", "deepseek", "surferai", "youchat",
   "semrush", "pi.ai", "mistral.ai", "copilot", "gemini", "claude", "llama",
   "perplexity", "jasper", "chatsonic", "undetectable", "character.ai",
   "clickup", "writesonic", "codewhisperer"}

\* values given to a provider setting: a name of the table, one of the table
\* in another case, one that is in no table
ProviderNames == {"ollama", "openai", "HuggingFace", "Acme"}

\* the names of the table written in capitals and with a capital initial,
\* each with what String.prototype.toLowerCase() makes of it
CasedNames ==
  {<<"OLLAMA", "ollama">>, <<"Ollama", "ollama">>,
   <<"OPENAI", "openai">>, <<"Openai", "openai">>,
   <<"HUGGINGFACE", "huggingface">>, <<"Huggingface", "huggingface">>,
   <<"GROK", "grok">>, <<"Grok", "grok">>,
   <<"DEEPSEEK", "deepseek">>, <<"Deepseek", "deepseek">>,
   <<"SURFERAI", "surferai">>, <<"Surferai", "surferai">>,
   <<"YOUCHAT", "youchat">>, <<"Youchat", "youchat">>,
   <<"SEMRUSH", "semrush">>, <<"Semrush", "semrush">>,
   <<"PI.AI", "pi.ai">>, <<"Pi.ai", "pi.ai">>,
   <<"MISTRAL.AI", "mistral.ai">>, <<"Mistral.ai", "mistral.ai">>,
   <<"COPILOT", "copilot">>, <<"Copilot", "copilot">>,
   <<"GEMINI", "gemini">>, <<"Gemini", "gemini">>,
   <<"CLAUDE", "claude">>, <<"Claude", "claude">>,
   <<"LLAMA", "llama">>, <<"Llama", "llama">>,
   <<"PERPLEXITY", "perplexity">>, <<"Perplexity", "perplexity">>,
   <<"JASPER", "jasper">>, <<"Jasper", "jasper">>,
   <<"CHATSONIC", "chatsonic">>, <<"Chatsonic", "chatsonic">>,
   <<"UNDETECTABLE", "undetectable">>, <<"Undetectable", "undetectable">>,
   <<"CHARACTER.AI", "character.ai">>, <<"Character.ai", "character.ai">>,
   <<"CLICKUP", "clickup">>, <<"Clickup", "clickup">>,
   <<"WRITESONIC", "writesonic">>, <<"Writesonic", "writesonic">>,
   <<"CODEWHISPERER", "codewhisperer">>, <<"Codewhisperer", "codewhisperer">>}

\* a lookup that compares the name as it is written
ToLowerCase_AsWritten(s) == s

\* provider.toLowerCase() on the names above
ToLowerCase(s) ==
  CASE s = "HuggingFace" -> "huggingface"
    [] s = "Acme" -> "acme"
    [] \E p \in CasedNames : p[1] = s -> (CHOOSE p \in CasedNames : p[1] = s)[2]
    [] OTHER -> s

LocalUrl == "http://localhost:11434"
DockerUrl == "http://host.docker.internal:11434"
CustomUrl == "http://custom:11434"
Urls == {CustomUrl, LocalUrl, DockerUrl}

\* the keys handed to SettingsManager.getConfiguration / updateConfiguration;
\* each is passed as it is to the configuration of the section
Keys == {"provider", "vibecoding.provider", "vibecoding.ollamaUrlCustom",
         "vibecoding.ollamaUrlLocal", "vibecoding.ollamaUrlDocker",
         "openaiApiKey", "openaiModel"}
Undefined == "undefined"

\* SettingsManager.getConfiguration(key, defaultValue): with a default given
\* the value is never undefined and nothing is thrown
getConfiguration(s, key, defaultValue) ==
  IF s[key] = Undefined THEN defaultValue ELSE s[key]

\* axios.get(url, {timeout}) inside the try of the constructor is not awaited:
\* it returns a promise, and a rejection of it is not thrown in the constructor
ProbeThrows(u, live) == FALSE

\* the loop of the constructor: base is the first url whose try block ends
RECURSIVE FirstProbed(_, _)
FirstProbed(urls, live) ==
  IF urls = <<>> THEN ""
  ELSE IF ~ProbeThrows(Head(urls), live) THEN Head(urls)
       ELSE FirstProbed(Tail(urls), live)

\* the candidates of the constructor: custom, local, docker, the empty ones dropped
OllamaUrls(s) ==
  SelectSeq(<<getConfiguration(s, "vibecoding.ollamaUrlCustom", ""),
              getConfiguration(s, "vibecoding.ollamaUrlLocal", LocalUrl),
              getConfiguration(s, "vibecoding.ollamaUrlDocker", DockerUrl)>>,
            LAMBDA u : u # "")

\* new OllamaClient(settings, logger)
OllamaClient(s, live) ==
  [variant |-> "ollama", base |-> FirstProbed(OllamaUrls(s), live),
   model |-> "codellama:7b", apiKey |-> ""]

\* the clients of the other providers take their endpoint from their own keys
\* (HuggingFaceClient: the model of its setting, '' by default). OpenAIClient
\* is imported from a file that is not among the sources: by its tests it
\* holds a model and an API key, taken here from getOpenAIModel/getOpenAIKey
OtherClient(s, provider) ==
  IF provider = "openai"
  THEN [variant |-> provider, base |-> "",
        model |-> getConfiguration(s, "openaiModel", "gpt-3.5-turbo"),
        apiKey |-> getConfiguration(s, "openaiApiKey", "")]
  ELSE [variant |-> provider, base |-> "", model |-> "", apiKey |-> ""]

NoClient == [variant |-> "none", base |-> "", model |-> "", apiKey |-> ""]

\* the stub classes: generateCode() { throw new Error('Not implemented') }
StubProviders ==
  {"copilot", "gemini", "claude", "llama", "perplexity", "jasper", "chatsonic",
   "undetectable", "character.ai", "clickup", "writesonic", "codewhisperer"}

\* what generateCode of a variant throws before any request is made
ThrownAtOnce(variant) ==
  IF variant \in StubProviders THEN "Not implemented" ELSE "none"

\* the clients that define setModel, and those that define setApiKey
HasSetModel(variant) == variant \in {"ollama", "huggingface", "openai"}
HasSetApiKey(variant) == variant = "openai"

\* a factory that refuses the names it does not know
createLLMClient_Strict(s, live) ==
  LET provider == ToLowerCase(getConfiguration(s, "vibecoding.provider", "ollama"))
  IN IF provider = "ollama"
       THEN [provider |-> provider, raised |-> FALSE, warned |-> FALSE,
             client |-> OllamaClient(s, live)]
     ELSE IF provider \in ProviderTable
       THEN [provider |-> provider, raised |-> FALSE, warned |-> FALSE,
             client |-> OtherClient(s, provider)]
     ELSE [provider |-> provider, raised |-> TRUE, warned |-> FALSE,
           client |-> NoClient]

\* createLLMClient(settings, logger): the name read, whether it raised,
\* whether logger.warn was called, and the client returned
createLLMClient(s, live) ==
  LET provider == ToLowerCase(getConfiguration(s, "vibecoding.provider", "ollama"))
  IN IF provider = "ollama"
       THEN [provider |-> provider, raised |-> FALSE, warned |-> FALSE,
             client |-> OllamaClient(s, live)]
     ELSE IF provider \in ProviderTable
       THEN [provider |-> provider, raised |-> FALSE, warned |-> FALSE,
             client |-> OtherClient(s, provider)]
     ELSE [provider |-> provider, raised |-> FALSE, warned |-> TRUE,
           client |-> OllamaClient(s, live)]

\* the objects that keep a reference to an LLM client
Holders == {"controller", "autoCoder", "errorRecovery"}

\* the client object number id
Object(id, client) ==
  [id |-> id, variant |-> client.variant, base |-> client.base,
   model |-> client.model, apiKey |-> client.apiKey]

\* a setter that works on a copy: the other holders of the object see nothing
setModel_OnCopy(refs, id, m) == [refs EXCEPT !["controller"].model = m]

\* client.setModel(m) on the object id: this.model = m, seen through every
\* reference to the object
setModel(refs, id, m) ==
  [h \in Holders |-> IF refs[h].id = id THEN [refs[h] EXCEPT !.model = m] ELSE refs[h]]

\* client.setApiKey(key) on the object id
setApiKey(refs, id, key) ==
  [h \in Holders |-> IF refs[h].id = id THEN [refs[h] EXCEPT !.apiKey = key] ELSE refs[h]]

IdleUpd == [pc |-> "idle", op |-> "", provider |-> "", res |-> "none"]

\* new VibeController(...): one client is created and handed to ErrorRecovery
\* and to AutoCoder
VibeController(s, live) ==
  LET r == createLLMClient(s, live)
  IN /\ settings = s
     /\ reachable = live
     /\ made = r
     /\ built = 1
     /\ llm = [h \in Holders |-> Object(IF r.raised THEN 0 ELSE 1, r.client)]
     /\ asked = <<>>
     /\ upd = IdleUpd
     /\ stops = 0

\* the settings of a workspace that sets none of the keys
DefaultSettings == [k \in Keys |-> Undefined]

\* updateProvider(provider) up to its await
updateProvider(provider) ==
  /\ upd.pc = "idle"
  /\ built < MaxBuilds
  /\ upd' = [pc |-> "await", op |-> "provider", provider |-> provider, res |-> "none"]
  /\ UNCHANGED <<settings, reachable, llm, asked, made, built, stops>>
  /\ UNCHANGED faults

\* updateConfiguration('provider', provider) settled: rejected, updateProvider
\* rejects; fulfilled, the client of the controller is created anew
updateProviderSettled ==
  /\ upd.pc = "await" /\ upd.op = "provider"
  /\ \E ok \in Outcomes :
       /\ Settled(ok)
       /\ IF ok
            THEN LET s == [settings EXCEPT !["provider"] = upd.provider]
                     r == createLLMClient(s, reachable)
                 IN /\ settings' = s
                    /\ made' = r
                    /\ built' = built + 1
                    /\ llm' = IF r.raised THEN llm
                              ELSE [llm EXCEPT !["controller"] = Object(built + 1, r.client)]
                    /\ upd' = [upd EXCEPT !.pc = "idle",
                                          !.res = IF r.raised THEN "err" ELSE "ok"]
            ELSE /\ upd' = [upd EXCEPT !.pc = "idle", !.res = "err"]
                 /\ UNCHANGED <<settings, made, built, llm>>
  /\ UNCHANGED <<reachable, asked, stops>>

\* updateOpenAIModel(model) and updateOpenAIKey(key) up to their await; the
\* value is kept in the frame
updateOpenAIModel(model) ==
  /\ upd.pc = "idle"
  /\ built < MaxBuilds
  /\ upd' = [pc |-> "await", op |-> "model", provider |-> model, res |-> "none"]
  /\ UNCHANGED <<settings, reachable, llm, asked, made, built, stops>>
  /\ UNCHANGED faults

updateOpenAIKey(key) ==
  /\ upd.pc = "idle"
  /\ built < MaxBuilds
  /\ upd' = [pc |-> "await", op |-> "key", provider |-> key, res |-> "none"]
  /\ UNCHANGED <<settings, reachable, llm, asked, made, built, stops>>
  /\ UNCHANGED faults

\* the else branch of both: this.llm = createLLMClient(settings, logger)
Recreate(s) ==
  LET r == createLLMClient(s, reachable)
  IN /\ made' = r
     /\ built' = built + 1
     /\ llm' = IF r.raised THEN llm
               ELSE [llm EXCEPT !["controller"] = Object(built + 1, r.client)]
     /\ upd' = [upd EXCEPT !.pc = "idle", !.res = IF r.raised THEN "err" ELSE "ok"]

\* updateConfiguration('openaiModel', model) settled: the client of the
\* controller gets the model through setModel when it has one, else a client
\* is created anew
updateOpenAIModelSettled ==
  /\ upd.pc = "await" /\ upd.op = "model"
  /\ \E ok \in Outcomes :
       /\ Settled(ok)
       /\ IF ok
            THEN /\ settings' = [settings EXCEPT !["openaiModel"] = upd.provider]
                 /\ IF HasSetModel(llm["controller"].variant)
                    THEN /\ llm' = setModel(llm, llm["controller"].id, upd.provider)
                         /\ upd' = [upd EXCEPT !.pc = "idle", !.res = "ok"]
                         /\ UNCHANGED <<made, built>>
                    ELSE Recreate(settings')
            ELSE /\ upd' = [upd EXCEPT !.pc = "idle", !.res = "err"]
                 /\ UNCHANGED <<settings, made, built, llm>>
  /\ UNCHANGED <<reachable, asked, stops>>

\* updateConfiguration('openaiApiKey', key) settled: likewise with setApiKey
updateOpenAIKeySettled ==
  /\ upd.pc = "await" /\ upd.op = "key"
  /\ \E ok \in Outcomes :
       /\ Settled(ok)
       /\ IF ok
            THEN /\ settings' = [settings EXCEPT !["openaiApiKey"] = upd.provider]
                 /\ IF HasSetApiKey(llm["controller"].variant)
                    THEN /\ llm' = setApiKey(llm, llm["controller"].id, upd.provider)
                         /\ upd' = [upd EXCEPT !.pc = "idle", !.res = "ok"]
                         /\ UNCHANGED <<made, built>>
                    ELSE Recreate(settings')
            ELSE /\ upd' = [upd EXCEPT !.pc = "idle", !.res = "err"]
                 /\ UNCHANGED <<settings, made, built, llm>>
  /\ UNCHANGED <<reachable, asked, stops>>

\* a stop request that ends the run: the flag the task loop reads is cleared
stopAuto_Halt ==
  /\ stops' = stops + 1
  /\ isRunning' = FALSE
  /\ UNCHANGED <<settings, reachable, llm, asked, made, built, upd>>
  /\ UNCHANGED <<autoSave, call, res, starts, rc, storeVars>>
  /\ UNCHANGED faults

\* VibeController.stopAuto(logCallback): two messages to the caller's log and
\* one to the logger; no field of the controller or of the AutoCoder is written
stopAuto ==
  /\ stops' = stops + 1
  /\ UNCHANGED <<settings, reachable, llm, asked, made, built, upd>>
  /\ UNCHANGED <<pipeVars, rc, storeVars>>
  /\ UNCHANGED faults

\* the performance modes startAutoMode is called with
PerformanceModes == {"high", "balanced", "efficient"}

\* temperatures in tenths; 0 stands for none given
EfficientTemperature == 5
DefaultTemperature == 7
OllamaTemperature == 7
NoTemperature == 0

\* the second argument of the generateCode call of the task loop
TaskOptions(performance) ==
  [temperature |-> IF performance = "efficient" THEN EfficientTemperature
                   ELSE DefaultTemperature]

\* generateCode(prompt) of ErrorRecovery: no second argument
NoOptions == [temperature |-> NoTemperature]

\* the temperature in the request a client posts: OllamaClient.generateCode
\* takes the prompt only and always sends 0.7; the other clients send none
RequestTemperature(variant, opts) ==
  IF variant = "ollama" THEN OllamaTemperature ELSE NoTemperature

\* this.llm.generateCode(...) of AutoCoder or of ErrorRecovery: the call goes
\* to the client the object holds
llmGenerateCode(h) ==
  /\ h \in {"autoCoder", "errorRecovery"}
  /\ Len(asked) < MaxAsks
  /\ \E performance \in IF h = "autoCoder" THEN PerformanceModes ELSE {"none"} :
       LET opts == IF h = "autoCoder" THEN TaskOptions(performance) ELSE NoOptions
       IN asked' = Append(asked, [by |-> h, client |-> llm[h].id,
                                  model |-> llm[h].model, apiKey |-> llm[h].apiKey,
                                  error |-> ThrownAtOnce(llm[h].variant),
                                  network |-> ThrownAtOnce(llm[h].variant) = "none",
                                  performance |-> performance,
                                  opts |-> opts,
                                  temperature |-> RequestTemperature(llm[h].variant, opts)])
  /\ UNCHANGED <<settings, reachable, llm, made, built, upd, stops>>
  /\ UNCHANGED faults

\* ---------------------------------------------- ErrorRecovery.analyzeAndFix
BackupsDir == <<".vibe", "/", "backups">>

\* path.basename(filePath)
Basename(filePath) == filePath[Len(filePath)]

\* `.vibe/backups/${path.basename(filePath)}.backup.${Date.now()}`
SnapshotPath(filePath, millis) ==
  BackupsDir \o <<"/", Basename(filePath), ".backup.", ToString(millis)>>

NoPrompt == [lead |-> <<>>, context |-> "", error |-> <<>>]

IdleFix ==
  [pc |-> "idle", errorMsg |-> <<>>, filePath |-> <<>>, original |-> "",
   snapshot |-> "none", ran |-> <<>>, prompt |-> NoPrompt, fixed |-> "",
   error |-> "none", logged |-> {}]

\* analyzeAndFix up to its first await: createDirectory('.vibe/backups') is called
FixFrame(errorMsg, filePath) ==
  [IdleFix EXCEPT !.pc = "mkdir", !.errorMsg = errorMsg, !.filePath = filePath]

\* analyzeAndFix: createDirectory settled; its rejection is not caught
analyzeAndFixMkdir(t) ==
  /\ rc[t].pc = "mkdir"
  /\ \E ok \in Outcomes :
       /\ Settled(ok)
       /\ IF ok
          THEN /\ dirs' = dirs \cup {BackupsDir}
               /\ rc' = [rc EXCEPT ![t].pc = "ctx"]
          ELSE /\ rc' = [rc EXCEPT ![t].pc = "err", ![t].error = "CreateDirectoryFailed"]
               /\ UNCHANGED dirs
  /\ UNCHANGED <<disk, hist, durable, mem, initpc, now, wr, rv, ret, pre, ops, completed>>

\* the dependency check is skipped: the prompt goes to the LLM client at once
AfterSnapshot_NoInstall(fix) ==
  [fix EXCEPT !.pc = "llm", !.prompt = FixPrompt(fix.errorMsg, fix.original)]

\* steps 4 and 5 up to the next await: the install command is run when
\* checkForDependencyError returns one, else the prompt goes to the LLM client
AfterSnapshot(fix) ==
  IF checkForDependencyError(fix.errorMsg) # <<>>
  THEN [fix EXCEPT !.pc = "install"]
  ELSE [fix EXCEPT !.pc = "llm", !.prompt = FixPrompt(fix.errorMsg, fix.original)]

\* no snapshot is taken: the dependency check follows the read at once
analyzeAndFixContext_NoSnapshot(t) ==
  /\ rc[t].pc = "ctx"
  /\ rc' = [rc EXCEPT ![t] =
              [AfterSnapshot(rc[t]) EXCEPT
                 !.original = IF readFile(rc[t].filePath).kind = "content"
                              THEN readFile(rc[t].filePath).text ELSE ""]]
  /\ UNCHANGED <<disk, hist, durable, mem, initpc, now, wr, rv, ret, pre, ops, dirs, completed>>
  /\ UNCHANGED faults

\* analyzeAndFix: getContext settled ('' when the read failed); the snapshot
\* writeFile is called on ErrorRecovery's own FileManager
analyzeAndFixContext(t) ==
  /\ rc[t].pc = "ctx"
  /\ LET original == IF readFile(rc[t].filePath).kind = "content"
                     THEN readFile(rc[t].filePath).text ELSE ""
     IN /\ rc' = [rc EXCEPT ![t].pc = "snap", ![t].original = original,
                             ![t].logged = IF readFile(rc[t].filePath).kind = "content"
                                           THEN @ ELSE @ \cup {"ContextReadFailed"}]
        /\ wr' = [wr EXCEPT ![t] =
                    WriteFrame("rec", SnapshotPath(rc[t].filePath, now), original)]
  /\ UNCHANGED <<disk, hist, durable, mem, initpc, now, rv, ret, pre, ops, dirs, completed>>
  /\ UNCHANGED faults

\* a rejected snapshot write is fatal
analyzeAndFixSnapshot_Fatal(t) ==
  /\ rc[t].pc = "snap"
  /\ wr[t].pc \in {"ok", "err"}
  /\ rc' = [rc EXCEPT ![t] =
              IF wr[t].pc = "ok"
              THEN AfterSnapshot([rc[t] EXCEPT !.snapshot = "BackupCreated"])
              ELSE [rc[t] EXCEPT !.pc = "err", !.snapshot = "BackupFailed",
                                 !.error = "BackupFailed"]]
  /\ wr' = [wr EXCEPT ![t] = IdleWrite]
  /\ UNCHANGED <<disk, hist, durable, mem, initpc, now, rv, ret, pre, ops, dirs, completed>>
  /\ UNCHANGED faults

\* analyzeAndFix: the snapshot writeFile settled; a rejection is only logged
analyzeAndFixSnapshot(t) ==
  /\ rc[t].pc = "snap"
  /\ wr[t].pc \in {"ok", "err"}
  /\ rc' = [rc EXCEPT ![t] =
              AfterSnapshot([rc[t] EXCEPT
                               !.snapshot = IF wr[t].pc = "ok" THEN "BackupCreated"
                                            ELSE "BackupFailed",
                               !.logged = @ \cup {IF wr[t].pc = "ok" THEN "BackupCreated"
                                                  ELSE "BackupFailed"}])]
  /\ wr' = [wr EXCEPT ![t] = IdleWrite]
  /\ UNCHANGED <<disk, hist, durable, mem, initpc, now, rv, ret, pre, ops, dirs, completed>>
  /\ UNCHANGED faults

\* a failed install is swallowed: the prompt goes to the LLM client all the same
handleDependencyError_Swallow(t) ==
  /\ rc[t].pc = "install"
  /\ \E ok \in Outcomes :
       /\ Settled(ok)
       /\ rc' = [rc EXCEPT ![t].pc = "llm",
                           ![t].prompt = FixPrompt(rc[t].errorMsg, rc[t].original),
                           ![t].error = IF ok THEN "none" ELSE "DependencyInstallFailed"]
  /\ UNCHANGED storeVars

\* handleDependencyError: runCommand settled; a failure is logged and rethrown
handleDependencyError(t) ==
  /\ rc[t].pc = "install"
  /\ \E ok \in Outcomes :
       /\ Settled(ok)
       /\ IF ok
          THEN rc' = [rc EXCEPT ![t].pc = "llm",
                                ![t].ran = Append(@, checkForDependencyError(rc[t].errorMsg)),
                                ![t].prompt = FixPrompt(rc[t].errorMsg, rc[t].original),
                                ![t].logged = @ \cup {"DependencyInstalled"}]
          ELSE rc' = [rc EXCEPT ![t].pc = "err",
                                ![t].error = "DependencyInstallFailed",
                                ![t].logged = @ \cup {"DependencyInstallFailed"}]
  /\ UNCHANGED storeVars

\* the engine applies the patch itself before returning it
analyzeAndFixLLM_Apply(t) ==
  /\ rc[t].pc = "llm"
  /\ \E ok \in Outcomes, fixed \in FixedCode :
       /\ Settled(ok)
       /\ IF ok
          THEN /\ rc' = [rc EXCEPT ![t].pc = "ok", ![t].fixed = fixed]
               /\ disk' = [p \in DOMAIN disk \cup {rc[t].filePath} |->
                             IF p = rc[t].filePath THEN fixed ELSE disk[p]]
          ELSE /\ rc' = [rc EXCEPT ![t].pc = "err", ![t].error = "ProviderError"]
               /\ UNCHANGED disk
  /\ UNCHANGED <<hist, durable, mem, initpc, now, wr, rv, ret, pre, ops, dirs, completed>>

\* analyzeAndFix: llm.generateCode settled; its text is returned as it is
analyzeAndFixLLM(t) ==
  /\ rc[t].pc = "llm"
  /\ \E ok \in Outcomes, fixed \in FixedCode :
       /\ Settled(ok)
       /\ IF ok
          THEN rc' = [rc EXCEPT ![t].pc = "ok", ![t].fixed = fixed]
          ELSE rc' = [rc EXCEPT ![t].pc = "err", ![t].error = "ProviderError"]
  /\ UNCHANGED storeVars

\* --------------------------------------------------------------- AutoCoder
TestsDir == <<"tests">>
CIFile == <<".github", "/", "workflows", "/", "ci.yml">>
Languages == {"python", "java"}

\* createProjectConfig(language).projectStructure
ProjectStructure(language) ==
  IF language = "java"
  THEN [sourceDir |-> <<"src", "/", "main", "/", "java">>,
        testDir |-> <<"src", "/", "test", "/", "java">>,
        configFiles |-> << <<"pom.xml">> >>]
  ELSE IF language = "javascript"
  THEN [sourceDir |-> SourceDir, testDir |-> TestsDir,
        configFiles |-> << <<"package.json">>, <<".eslintrc.js">> >>]
  ELSE [sourceDir |-> SourceDir, testDir |-> TestsDir,
        configFiles |-> << <<"requirements.txt">>, <<"pyproject.toml">> >>]

\* generateConfigContent(file, cfg)
generateConfigContent(file) ==
  IF file = <<"requirements.txt">> THEN "flask==2.3.2\npytest==7.4.0"
  ELSE IF file = <<"pyproject.toml">> THEN "[tool.poetry]"
  ELSE IF file = <<"package.json">> THEN "{name: vibe-project}"
  ELSE IF file = <<".eslintrc.js">> THEN "module.exports = {}"
  ELSE IF file = <<"pom.xml">> THEN "<project>"
  ELSE ""

\* a Task as the parser returns it: its file and the command that tests it
TaskOf(file) == [file |-> file, testCommand |-> <<"python ">> \o file]

\* the task lists parseSpecifications can return: one task or more, in order
TaskLists ==
  UNION {[1..n -> {TaskOf(p) : p \in StorePaths}] : n \in 1..MaxTasks}

IdleCall ==
  [pc |-> "idle", language |-> "", tasks |-> <<>>, idx |-> 0, cfg |-> 0,
   attempt |-> 0, runs |-> 0, fixes |-> 0, patches |-> 0, base |-> 0,
   passed |-> FALSE, warned |-> FALSE, warnings |-> 0, failed |-> FALSE,
   lint |-> "none"]

\* the writeFile calls the run has issued are counted
WriteCounted(c) ==
  /\ ops' = IF wr'[c].pc = "stat" THEN ops + 1 ELSE ops
  /\ ops' <= MaxWrites

\* between the guard and the finally block
InRun(c) == call[c].pc \notin {"idle", "saveAll"}

\* the guard is missing: no call is rejected
StartRejected_Never == FALSE

\* if (this.isRunning) { log(...); return; }
StartRejected == isRunning

\* startAutoMode up to its first await: the guard, isRunning = true, then,
\* before the try block, the caller's log callback and llm.setModel, either of
\* which returns or throws; in the try block setupStructure's first
\* createDirectory is called
startAutoMode(c, language) ==
  /\ call[c].pc = "idle"
  /\ starts < MaxStarts
  /\ \A f \in FMs : initpc[f] = "done"
  /\ starts' = starts + 1
  /\ IF StartRejected
     THEN /\ res' = [res EXCEPT ![c] = "rejected"]
          /\ UNCHANGED <<isRunning, call, faults>>
     ELSE /\ isRunning' = TRUE
          /\ \E ok \in Outcomes :
               /\ Settled(ok)
               /\ IF ok
                  THEN /\ call' = [call EXCEPT ![c] =
                                     [IdleCall EXCEPT !.pc = "mkSrc", !.language = language]]
                       /\ res' = [res EXCEPT ![c] = "none"]
                  ELSE /\ res' = [res EXCEPT ![c] = "err"]
                       /\ UNCHANGED call
  /\ UNCHANGED <<autoSave, rc, storeVars>>

\* the catch block swallows the error: the call ends as a completed one
Leave_Swallow(c, failed) ==
  /\ isRunning' = FALSE
  /\ IF autoSave
     THEN /\ call' = [call EXCEPT ![c] = [@ EXCEPT !.pc = "saveAll", !.failed = FALSE]]
          /\ UNCHANGED res
     ELSE /\ call' = [call EXCEPT ![c] = IdleCall]
          /\ res' = [res EXCEPT ![c] = "ok"]

\* catch (logged, rethrown) and finally: isRunning = false, then saveAll when
\* autoSave is set
Leave(c, failed) ==
  /\ isRunning' = FALSE
  /\ IF autoSave
     THEN /\ call' = [call EXCEPT ![c] = [@ EXCEPT !.pc = "saveAll", !.failed = failed]]
          /\ UNCHANGED res
     ELSE /\ call' = [call EXCEPT ![c] = IdleCall]
          /\ res' = [res EXCEPT ![c] = IF failed THEN "err" ELSE "ok"]

\* the loop passes over a task
EnterTask_SkipOne(fr, i) ==
  IF i + 1 <= Len(fr.tasks) /\ isRunning
  THEN [fr EXCEPT !.pc = "gen", !.idx = i + 1, !.attempt = 0, !.runs = 0, !.fixes = 0,
                  !.patches = 0, !.passed = FALSE, !.warned = FALSE,
                  !.base = Len(SelectPath(mem["ctl"], fr.tasks[i + 1].file))]
  ELSE [fr EXCEPT !.pc = "git1", !.warned = FALSE]

\* the head of the task loop for task i: break when isRunning is false, else
\* generateCode is called; after the loop setupGit runs 'git init'
EnterTask(fr, i) ==
  IF i <= Len(fr.tasks) /\ isRunning
  THEN [fr EXCEPT !.pc = "gen", !.idx = i, !.attempt = 0, !.runs = 0, !.fixes = 0,
                  !.patches = 0, !.passed = FALSE, !.warned = FALSE,
                  !.base = Len(SelectPath(mem["ctl"], fr.tasks[i].file))]
  ELSE [fr EXCEPT !.pc = "git1", !.warned = FALSE]

\* the bound is taken inclusively: one more turn of the loop
LoopContinues_Inclusive(attempt) == attempt <= MaxAttempts

\* while (attempt < 3)
LoopContinues(attempt) == attempt < MaxAttempts

\* the last patch is tested before the loop gives up
TestLoop_TestsLastPatch(fr) ==
  IF fr.runs <= MaxAttempts
  THEN [fr EXCEPT !.pc = "test", !.runs = @ + 1]
  ELSE [fr EXCEPT !.pc = "quality", !.warned = TRUE, !.warnings = @ + 1]

\* the head of testAndFix's loop: the test command is run, or the warning is
\* logged and runQualityChecks is called
TestLoop(fr) ==
  IF LoopContinues(fr.attempt)
  THEN [fr EXCEPT !.pc = "test", !.runs = @ + 1]
  ELSE [fr EXCEPT !.pc = "quality", !.warned = TRUE, !.warnings = @ + 1]

\* setupStructure: a createDirectory settled
setupStructureDir(c) ==
  /\ call[c].pc \in {"mkSrc", "mkTest"}
  /\ LET ps == ProjectStructure(call[c].language)
     IN \E ok \in Outcomes :
          /\ Settled(ok)
          /\ IF ok
             THEN /\ dirs' = dirs \cup
                       {IF call[c].pc = "mkSrc" THEN ps.sourceDir ELSE ps.testDir}
                  /\ IF call[c].pc = "mkSrc"
                     THEN /\ call' = [call EXCEPT ![c].pc = "mkTest"]
                          /\ UNCHANGED wr
                     ELSE /\ call' = [call EXCEPT ![c].pc = "cfgWrite", ![c].cfg = 1]
                          /\ wr' = [wr EXCEPT ![c] =
                                      WriteFrame("ctl", ps.configFiles[1],
                                                 generateConfigContent(ps.configFiles[1]))]
                  /\ UNCHANGED <<isRunning, res>>
             ELSE /\ Leave(c, TRUE)
                  /\ UNCHANGED <<dirs, wr>>
  /\ UNCHANGED <<autoSave, starts, rc>>
  /\ UNCHANGED <<disk, hist, durable, mem, initpc, now, rv, ret, pre, completed>>
  /\ WriteCounted(c)

\* setupStructure: the writeFile of a config file settled
setupStructureWrite(c) ==
  /\ call[c].pc = "cfgWrite"
  /\ wr[c].pc \in {"ok", "err"}
  /\ LET files == ProjectStructure(call[c].language).configFiles
     IN IF wr[c].pc = "err"
        THEN /\ Leave(c, TRUE)
             /\ wr' = [wr EXCEPT ![c] = IdleWrite]
        ELSE /\ IF call[c].cfg < Len(files)
                THEN /\ call' = [call EXCEPT ![c].cfg = @ + 1]
                     /\ wr' = [wr EXCEPT ![c] =
                                 WriteFrame("ctl", files[call[c].cfg + 1],
                                            generateConfigContent(files[call[c].cfg + 1]))]
                ELSE /\ call' = [call EXCEPT ![c].pc = "parse"]
                     /\ wr' = [wr EXCEPT ![c] = IdleWrite]
             /\ UNCHANGED <<isRunning, res>>
  /\ UNCHANGED <<autoSave, starts, rc>>
  /\ UNCHANGED <<disk, hist, durable, mem, initpc, now, rv, ret, pre, dirs, completed>>
  /\ UNCHANGED faults
  /\ WriteCounted(c)

\* parser.parseSpecifications settled: the tasks, or its error
parseSpecifications(c) ==
  /\ call[c].pc = "parse"
  /\ \/ \E tasks \in TaskLists :
          /\ call' = [call EXCEPT ![c] = EnterTask([@ EXCEPT !.tasks = tasks], 1)]
          /\ UNCHANGED <<isRunning, res>>
     \/ Leave(c, TRUE)
  /\ UNCHANGED <<autoSave, starts, rc, storeVars>>
  /\ UNCHANGED faults

\* a stub client answers like any other
generateCode_StubAnswers(c) ==
  /\ call[c].pc = "gen"
  /\ \/ \E code \in GeneratedCode :
          /\ wr' = [wr EXCEPT ![c] =
                      WriteFrame("ctl", call[c].tasks[call[c].idx].file, code)]
          /\ call' = [call EXCEPT ![c].pc = "genWrite"]
          /\ UNCHANGED <<isRunning, res>>
          /\ UNCHANGED faults
     \/ /\ faults < MaxFaults
        /\ faults' = faults + 1
        /\ Leave(c, TRUE)
        /\ UNCHANGED wr
  /\ UNCHANGED <<autoSave, starts, rc>>
  /\ UNCHANGED <<disk, hist, durable, mem, initpc, now, rv, ret, pre, dirs, completed>>
  /\ WriteCounted(c)

\* llm.generateCode(task.prompt) settled: a stub client has thrown, another
\* client has answered or failed; files.writeFile(task.file, code) is called
generateCode(c) ==
  /\ call[c].pc = "gen"
  /\ IF ThrownAtOnce(llm["autoCoder"].variant) # "none"
     THEN /\ Leave(c, TRUE)
          /\ UNCHANGED <<wr, faults>>
     ELSE \/ \E code \in GeneratedCode :
               /\ wr' = [wr EXCEPT ![c] =
                           WriteFrame("ctl", call[c].tasks[call[c].idx].file, code)]
               /\ call' = [call EXCEPT ![c].pc = "genWrite"]
               /\ UNCHANGED <<isRunning, res>>
               /\ UNCHANGED faults
          \/ /\ faults < MaxFaults
             /\ faults' = faults + 1
             /\ Leave(c, TRUE)
             /\ UNCHANGED wr
  /\ UNCHANGED <<autoSave, starts, rc>>
  /\ UNCHANGED <<disk, hist, durable, mem, initpc, now, rv, ret, pre, dirs, completed>>
  /\ WriteCounted(c)

\* the writeFile of the generated code settled; testAndFix starts
generatedWritten(c) ==
  /\ call[c].pc = "genWrite"
  /\ wr[c].pc \in {"ok", "err"}
  /\ IF wr[c].pc = "ok"
     THEN /\ call' = [call EXCEPT ![c] = TestLoop(@)]
          /\ UNCHANGED <<isRunning, res>>
     ELSE Leave(c, TRUE)
  /\ wr' = [wr EXCEPT ![c] = IdleWrite]
  /\ UNCHANGED <<autoSave, starts, rc>>
  /\ UNCHANGED <<disk, hist, durable, mem, initpc, now, rv, ret, pre, ops, dirs, completed>>
  /\ UNCHANGED faults

\* the Recovery Engine is called after every test run, passed or not
testSettled_AlwaysFix(c) ==
  /\ call[c].pc = "test"
  /\ \E pass \in BOOLEAN :
       /\ call' = [call EXCEPT ![c].pc = "fix", ![c].fixes = @ + 1, ![c].passed = pass]
       /\ rc' = [rc EXCEPT ![c] =
                   FixFrame(CommandFailedMessage(call[c].tasks[call[c].idx].testCommand),
                            call[c].tasks[call[c].idx].file)]
  /\ UNCHANGED <<isRunning, autoSave, res, starts, storeVars>>
  /\ UNCHANGED faults

\* testAndFix: terminal.runCommand(task.testCommand) settled; on a failure
\* recovery.analyzeAndFix(e.message, task.file) is called
testSettled(c) ==
  /\ call[c].pc = "test"
  /\ \E pass \in BOOLEAN :
       IF pass
       THEN /\ call' = [call EXCEPT ![c].pc = "quality", ![c].passed = TRUE]
            /\ UNCHANGED rc
       ELSE /\ call' = [call EXCEPT ![c].pc = "fix", ![c].fixes = @ + 1]
            /\ rc' = [rc EXCEPT ![c] =
                        FixFrame(CommandFailedMessage(call[c].tasks[call[c].idx].testCommand),
                                 call[c].tasks[call[c].idx].file)]
  /\ UNCHANGED <<isRunning, autoSave, res, starts, storeVars>>
  /\ UNCHANGED faults

\* a failed recovery call is passed over: the loop goes on to its next turn
fixSettled_CarryOn(c) ==
  /\ call[c].pc = "fix"
  /\ rc[c].pc \in {"ok", "err"}
  /\ IF rc[c].pc = "ok"
     THEN /\ wr' = [wr EXCEPT ![c] =
                      WriteFrame("ctl", call[c].tasks[call[c].idx].file, rc[c].fixed)]
          /\ call' = [call EXCEPT ![c].pc = "fixWrite"]
     ELSE /\ call' = [call EXCEPT ![c] = TestLoop([@ EXCEPT !.attempt = @ + 1])]
          /\ UNCHANGED wr
  /\ rc' = [rc EXCEPT ![c] = IdleFix]
  /\ UNCHANGED <<isRunning, res, autoSave, starts>>
  /\ UNCHANGED <<disk, hist, durable, mem, initpc, now, rv, ret, pre, dirs, completed>>
  /\ UNCHANGED faults
  /\ WriteCounted(c)

\* testAndFix: analyzeAndFix settled; files.writeFile(task.file, fixed) is called
fixSettled(c) ==
  /\ call[c].pc = "fix"
  /\ rc[c].pc \in {"ok", "err"}
  /\ IF rc[c].pc = "ok"
     THEN /\ wr' = [wr EXCEPT ![c] =
                      WriteFrame("ctl", call[c].tasks[call[c].idx].file, rc[c].fixed)]
          /\ call' = [call EXCEPT ![c].pc = "fixWrite"]
          /\ UNCHANGED <<isRunning, res>>
     ELSE /\ Leave(c, TRUE)
          /\ UNCHANGED wr
  /\ rc' = [rc EXCEPT ![c] = IdleFix]
  /\ UNCHANGED <<autoSave, starts>>
  /\ UNCHANGED <<disk, hist, durable, mem, initpc, now, rv, ret, pre, dirs, completed>>
  /\ UNCHANGED faults
  /\ WriteCounted(c)

\* the loop gives up after the first patch
fixWritten_GiveUp(c) ==
  /\ call[c].pc = "fixWrite"
  /\ wr[c].pc \in {"ok", "err"}
  /\ IF wr[c].pc = "ok"
     THEN /\ call' = [call EXCEPT ![c] =
                        [@ EXCEPT !.pc = "quality", !.attempt = MaxAttempts,
                                  !.patches = @ + 1, !.warned = TRUE, !.warnings = @ + 1]]
          /\ UNCHANGED <<isRunning, res>>
     ELSE Leave(c, TRUE)
  /\ wr' = [wr EXCEPT ![c] = IdleWrite]
  /\ UNCHANGED <<autoSave, starts, rc>>
  /\ UNCHANGED <<disk, hist, durable, mem, initpc, now, rv, ret, pre, ops, dirs, completed>>
  /\ UNCHANGED faults

\* testAndFix: the writeFile of the patch settled; attempt++ and the loop head
fixWritten(c) ==
  /\ call[c].pc = "fixWrite"
  /\ wr[c].pc \in {"ok", "err"}
  /\ IF wr[c].pc = "ok"
     THEN /\ call' = [call EXCEPT ![c] =
                        TestLoop([@ EXCEPT !.attempt = @ + 1, !.patches = @ + 1])]
          /\ UNCHANGED <<isRunning, res>>
     ELSE Leave(c, TRUE)
  /\ wr' = [wr EXCEPT ![c] = IdleWrite]
  /\ UNCHANGED <<autoSave, starts, rc>>
  /\ UNCHANGED <<disk, hist, durable, mem, initpc, now, rv, ret, pre, ops, dirs, completed>>
  /\ UNCHANGED faults

\* runQualityChecks: the command, <<>> for null
QualityCommand(file, lang) ==
  IF lang = "python" THEN <<"flake8 ">> \o file
  ELSE IF lang = "javascript" THEN <<"npx eslint ">> \o file
  ELSE <<>>

\* a failed quality command is thrown on to startAutoMode
runQualityChecks_Escalate(c) ==
  /\ call[c].pc = "quality"
  /\ \E pass \in IF QualityCommand(call[c].tasks[call[c].idx].file, call[c].language) = <<>>
                  THEN {TRUE} ELSE BOOLEAN :
       IF pass
       THEN /\ call' = [call EXCEPT ![c] = EnterTask(@, call[c].idx + 1)]
            /\ UNCHANGED <<isRunning, res>>
       ELSE Leave(c, TRUE)
  /\ UNCHANGED <<autoSave, starts, rc, storeVars>>
  /\ UNCHANGED faults

\* runQualityChecks settled: there was no command for the language, or its
\* command passed, or it failed, which is only logged; the loop goes on with
\* the next task
runQualityChecks(c) ==
  /\ call[c].pc = "quality"
  /\ LET cmd == QualityCommand(call[c].tasks[call[c].idx].file, call[c].language)
     IN \E pass \in IF cmd = <<>> THEN {TRUE} ELSE BOOLEAN :
          call' = [call EXCEPT ![c] =
                     EnterTask([@ EXCEPT !.lint = IF cmd = <<>> THEN "none"
                                                 ELSE IF pass THEN "passed" ELSE "issues"],
                               call[c].idx + 1)]
  /\ UNCHANGED <<isRunning, autoSave, res, starts, rc, storeVars>>
  /\ UNCHANGED faults

\* setupGit: a runCommand settled; after the third generateCICD calls writeFile
setupGit(c) ==
  /\ call[c].pc \in {"git1", "git2", "git3"}
  /\ \E ok \in Outcomes :
       /\ Settled(ok)
       /\ IF ok
          THEN /\ IF call[c].pc = "git3"
                  THEN /\ call' = [call EXCEPT ![c].pc = "ciWrite"]
                       /\ wr' = [wr EXCEPT ![c] = WriteFrame("ctl", CIFile, "name: CI")]
                  ELSE /\ call' = [call EXCEPT ![c].pc =
                                     IF call[c].pc = "git1" THEN "git2" ELSE "git3"]
                       /\ UNCHANGED wr
               /\ UNCHANGED <<isRunning, res>>
          ELSE /\ Leave(c, TRUE)
               /\ UNCHANGED wr
  /\ UNCHANGED <<autoSave, starts, rc>>
  /\ UNCHANGED <<disk, hist, durable, mem, initpc, now, rv, ret, pre, dirs, completed>>
  /\ WriteCounted(c)

\* generateCICD: the writeFile of the workflow settled; the run is complete
generateCICD(c) ==
  /\ call[c].pc = "ciWrite"
  /\ wr[c].pc \in {"ok", "err"}
  /\ Leave(c, wr[c].pc = "err")
  /\ wr' = [wr EXCEPT ![c] = IdleWrite]
  /\ UNCHANGED <<autoSave, starts, rc>>
  /\ UNCHANGED <<disk, hist, durable, mem, initpc, now, rv, ret, pre, ops, dirs, completed>>
  /\ UNCHANGED faults

\* finally: executeCommand('workbench.action.files.saveAll') settled
saveAll(c) ==
  /\ call[c].pc = "saveAll"
  /\ \E ok \in Outcomes :
       /\ Settled(ok)
       /\ res' = [res EXCEPT ![c] = IF ok /\ ~call[c].failed THEN "ok" ELSE "err"]
  /\ call' = [call EXCEPT ![c] = IdleCall]
  /\ UNCHANGED <<isRunning, autoSave, starts, rc, storeVars>>

InitQuiet ==
  /\ faults = 0
  /\ isRunning = FALSE
  /\ call = [c \in Calls |-> IdleCall]
  /\ res = [c \in Calls |-> "none"]
  /\ starts = 0
  /\ rc = [t \in Threads |-> IdleFix]
  /\ autoSave \in BOOLEAN

\* ... and the controller built in a workspace with the default settings
InitIdle ==
  InitQuiet /\ VibeController(DefaultSettings, {}) /\ TerminalManager /\ asking = NotAsked

FixStep ==
  \E t \in Threads :
    \/ analyzeAndFixMkdir(t) /\ UNCHANGED pipeVars
    \/ analyzeAndFixContext(t) /\ UNCHANGED pipeVars
    \/ analyzeAndFixSnapshot(t) /\ UNCHANGED pipeVars
    \/ analyzeAndFixLLM(t) /\ UNCHANGED pipeVars

PipeStep ==
  \E c \in Calls :
    \/ \E language \in Languages : startAutoMode(c, language)
    \/ setupStructureDir(c) \/ setupStructureWrite(c) \/ parseSpecifications(c)
    \/ generateCode(c) \/ generatedWritten(c) \/ testSettled(c) \/ fixSettled(c)
    \/ fixWritten(c) \/ runQualityChecks(c) \/ setupGit(c) \/ generateCICD(c)
    \/ saveAll(c)

NextPipe ==
  \/ StoreStep /\ UNCHANGED <<pipeVars, rc, clientVars, termVars, asking>>
  \/ FixStep /\ UNCHANGED <<clientVars, termVars, asking>>
  \/ PipeStep /\ UNCHANGED <<clientVars, termVars, asking>>
  \/ isRunning /\ stops < MaxStops /\ stopAuto /\ UNCHANGED <<termVars, asking>>

InitPipe == FreshWorkspace /\ InitStore /\ InitIdle

\* the pipeline of a controller built with a stub provider configured, or
\* with none
InitStub ==
  /\ FreshWorkspace /\ InitStore /\ InitQuiet
  /\ \E name \in StubProviders \cup {Undefined} :
       VibeController([DefaultSettings EXCEPT !["vibecoding.provider"] = name], {})
  /\ TerminalManager
  /\ asking = NotAsked

SpecStub == InitStub /\ [][NextPipe]_vars

\* ------------------------------------------------- analyzeAndFix on its own
\* the error texts given to analyzeAndFix: token sequences up to MaxErrLen
ErrTokens == {MNF, CFM, Quote, NL, "p"}
ErrTexts == UNION {[1..n -> ErrTokens] : n \in 0..MaxErrLen}

\* recovery.analyzeAndFix(errorMsg, filePath) is called
CallAnalyzeAndFix(t, errorMsg, filePath) ==
  /\ rc' = [rc EXCEPT ![t] = FixFrame(errorMsg, filePath)]
  /\ ret' = [ret EXCEPT ![t] = IdleRet]
  /\ ops' = ops + 1
  /\ UNCHANGED <<disk, hist, durable, mem, initpc, now, wr, rv, pre, dirs, completed>>
  /\ UNCHANGED <<pipeVars, faults>>

\* the promise of analyzeAndFix settled: the patch, or the error
AnalyzeAndFixReturn(t) ==
  /\ rc[t].pc \in {"ok", "err"}
  /\ ret' = [ret EXCEPT ![t] =
               [kind |-> IF rc[t].pc = "ok" THEN "fixed" ELSE "FixFailed",
                text |-> IF rc[t].pc = "ok" THEN rc[t].fixed ELSE rc[t].error,
                log |-> <<>>]]
  /\ rc' = [rc EXCEPT ![t] = IdleFix]
  /\ UNCHANGED <<disk, hist, durable, mem, initpc, now, wr, rv, pre, ops, dirs, completed>>
  /\ UNCHANGED <<pipeVars, faults>>

NextRecovery ==
  \/ StoreStep /\ UNCHANGED <<pipeVars, rc, clientVars, termVars, asking>>
  \/ FixStep /\ UNCHANGED <<clientVars, termVars, asking>>
  \/ handleDependencyError("ui") /\ UNCHANGED <<pipeVars, clientVars, termVars, asking>>
  \/ /\ Quiescent /\ ops < MaxFixCalls /\ rc["ui"].pc = "idle"
     /\ \E errorMsg \in ErrTexts, p \in StorePaths : CallAnalyzeAndFix("ui", errorMsg, p)
     /\ UNCHANGED <<clientVars, termVars, asking>>
  \/ AnalyzeAndFixReturn("ui") /\ UNCHANGED <<clientVars, termVars, asking>>

InitRecovery == (FreshWorkspace \/ UntrackedFile) /\ InitStore /\ InitIdle

SpecRecovery == InitRecovery /\ [][NextRecovery]_vars

SpecPipe == InitPipe /\ [][NextPipe]_vars

NextStore ==
  \/ StoreStep /\ UNCHANGED <<pipeVars, rc, clientVars, termVars, asking>>
  \/ Tick /\ UNCHANGED <<pipeVars, rc, clientVars, termVars, asking>>
  \/ RevertStep /\ UNCHANGED <<pipeVars, rc, clientVars, termVars, asking>>
  \/ WriteFileReturn("ui") /\ UNCHANGED <<pipeVars, rc, clientVars, termVars, asking>>
  \/ \E p \in StorePaths, c \in Contents :
       CallWriteFile("ui", p, c) /\ UNCHANGED <<pipeVars, rc, clientVars, termVars, asking>>
  \/ \E p \in StorePaths, v \in 1..MaxOps :
       CallRevertToVersion("ui", p, v) /\ UNCHANGED <<pipeVars, rc, clientVars, termVars, asking>>
  \/ \E p \in StorePaths : CallReadFile("ui", p) /\ UNCHANGED <<pipeVars, rc, clientVars, termVars, asking>>
  \/ \E p \in StorePaths \cup {<<>>, Omitted} :
       CallGetChangeHistory("ui", p) /\ UNCHANGED <<pipeVars, rc, clientVars, termVars, asking>>

\* the store with the orchestrator idle
InitStoreIdle == InitStore /\ InitIdle

SpecStore == InitStoreIdle /\ [][NextStore]_vars

\* ------------------------------------ callers that do not wait for each other
\* fileManager.writeFile(relativePath, content) called by a caller that waits
\* for its own call only
writeFile(t, f, relativePath, content) ==
  /\ wr[t].pc = "idle" /\ rv[t].pc = "idle"
  /\ wr' = [wr EXCEPT ![t] = WriteFrame(f, relativePath, content)]
  /\ ret' = [ret EXCEPT ![t] = IdleRet]
  /\ ops' = ops + 1
  /\ UNCHANGED <<disk, hist, durable, mem, initpc, now, rv, pre, dirs, completed>>
  /\ UNCHANGED faults

\* viewHistory: the Restore choice calls revertToVersion of the picked record
viewHistoryRestore(t, filePath, version) ==
  /\ wr[t].pc = "idle" /\ rv[t].pc = "idle"
  /\ revertToVersion(t, "ctl", filePath, version)
  /\ ops' = ops + 1
  /\ UNCHANGED <<disk, hist, durable, mem, initpc, now, wr, pre, dirs, completed>>
  /\ UNCHANGED faults

\* both history loads are over
Loaded == \A f \in FMs : initpc[f] = "done"

\* a run of the pipeline writing its files (caller A) while the history view
\* restores a version (caller ui), once the history is loaded
NextOverlap ==
  \/ StoreStep /\ UNCHANGED <<pipeVars, rc, clientVars, termVars, asking>>
  \/ RevertStep /\ UNCHANGED <<pipeVars, rc, clientVars, termVars, asking>>
  \/ \E t \in {"A", "ui"} :
       WriteFileReturn(t) /\ UNCHANGED <<pipeVars, rc, clientVars, termVars, asking>>
  \/ /\ Loaded /\ ops < MaxOps
     /\ \E p \in StorePaths, c \in GeneratedCode : writeFile("A", "ctl", p, c)
     /\ UNCHANGED <<pipeVars, rc, clientVars, termVars, asking>>
  \/ /\ Loaded /\ ops < MaxOps
     /\ \E p \in StorePaths, v \in 1..MaxOps : viewHistoryRestore("ui", p, v)
     /\ UNCHANGED <<pipeVars, rc, clientVars, termVars, asking>>

SpecOverlap == InitStoreIdle /\ [][NextOverlap]_vars

\* a caller that writes as soon as the FileManager is constructed, one call
\* at a time
NextEarly ==
  \/ StoreStep /\ UNCHANGED <<pipeVars, rc, clientVars, termVars, asking>>
  \/ WriteFileReturn("ui") /\ UNCHANGED <<pipeVars, rc, clientVars, termVars, asking>>
  \/ /\ ops < MaxOps
     /\ \E p \in StorePaths, c \in Contents : writeFile("ui", "ctl", p, c)
     /\ UNCHANGED <<pipeVars, rc, clientVars, termVars, asking>>

SpecEarly == InitStoreIdle /\ [][NextEarly]_vars

\* ------------------------------------------------ the clients of the LLM
\* the settings a workspace can hold: the provider under the key the section
\* declares, and whatever the user wrote under the keys createLLMClient reads
SettingsSpace ==
  {s \in [Keys -> ProviderNames \cup {CustomUrl, Undefined}] :
     /\ s["openaiApiKey"] = Undefined
     /\ s["openaiModel"] = Undefined
     /\ s["provider"] \in ProviderNames \cup {Undefined}
     /\ s["vibecoding.provider"] \in ProviderNames \cup {Undefined}
     /\ s["vibecoding.ollamaUrlCustom"] \in {CustomUrl, Undefined}
     /\ s["vibecoding.ollamaUrlLocal"] = Undefined
     /\ s["vibecoding.ollamaUrlDocker"] = Undefined}

\* the values the webview sends for the model and for the key
NewModels == {"gpt-4"}
NewKeys == {"new-key"}

InitClient ==
  /\ FreshWorkspace /\ InitStore /\ InitQuiet
  /\ autoSave = TRUE
  /\ \E s \in SettingsSpace, live \in SUBSET Urls : VibeController(s, live)
  /\ TerminalManager
  /\ asking = NotAsked

NextClient ==
  \/ \E provider \in ProviderNames :
       updateProvider(provider) /\ UNCHANGED <<storeVars, pipeVars, rc, termVars, asking>>
  \/ updateProviderSettled /\ UNCHANGED <<storeVars, pipeVars, rc, termVars, asking>>
  \/ \E h \in Holders \ {"controller"} :
       llmGenerateCode(h) /\ UNCHANGED <<storeVars, pipeVars, rc, termVars, asking>>

SpecClient == InitClient /\ [][NextClient]_vars

\* the names a user can have written as the provider: those of the table,
\* their other spellings, and names of no table
RouterNames ==
  ProviderTable \cup {p[1] : p \in CasedNames} \cup {"HuggingFace", "Acme", "acme"}

\* the controller constructed with one of these names configured
InitRouter ==
  /\ FreshWorkspace /\ InitStore /\ InitQuiet
  /\ autoSave = TRUE
  /\ \E name \in RouterNames \cup {Undefined}, live \in {{}, {LocalUrl}} :
       VibeController([DefaultSettings EXCEPT !["vibecoding.provider"] = name], live)
  /\ TerminalManager
  /\ asking = NotAsked

\* the pipeline calls the client; a key update has the router called again
\* when the client has no setApiKey
NextRouter ==
  \/ \E h \in Holders \ {"controller"} :
       llmGenerateCode(h) /\ UNCHANGED <<storeVars, pipeVars, rc, termVars, asking>>
  \/ \E key \in NewKeys :
       updateOpenAIKey(key) /\ UNCHANGED <<storeVars, pipeVars, rc, termVars, asking>>
  \/ updateOpenAIKeySettled /\ UNCHANGED <<storeVars, pipeVars, rc, termVars, asking>>

SpecRouter == InitRouter /\ [][NextRouter]_vars

\* the controller of a workspace whose provider is set, its model and key
\* setters called from the webview
InitSetters ==
  /\ FreshWorkspace /\ InitStore /\ InitQuiet
  /\ autoSave = TRUE
  /\ \E s \in SettingsSpace :
       /\ s["provider"] = Undefined
       /\ s["vibecoding.ollamaUrlCustom"] = Undefined
       /\ VibeController(s, {LocalUrl})
  /\ TerminalManager
  /\ asking = NotAsked

NextSetters ==
  \/ \E provider \in ProviderNames :
       updateProvider(provider) /\ UNCHANGED <<storeVars, pipeVars, rc, termVars, asking>>
  \/ updateProviderSettled /\ UNCHANGED <<storeVars, pipeVars, rc, termVars, asking>>
  \/ \E model \in NewModels :
       updateOpenAIModel(model) /\ UNCHANGED <<storeVars, pipeVars, rc, termVars, asking>>
  \/ updateOpenAIModelSettled /\ UNCHANGED <<storeVars, pipeVars, rc, termVars, asking>>
  \/ \E key \in NewKeys :
       updateOpenAIKey(key) /\ UNCHANGED <<storeVars, pipeVars, rc, termVars, asking>>
  \/ updateOpenAIKeySettled /\ UNCHANGED <<storeVars, pipeVars, rc, termVars, asking>>
  \/ \E h \in Holders \ {"controller"} :
       llmGenerateCode(h) /\ UNCHANGED <<storeVars, pipeVars, rc, termVars, asking>>

SpecSetters == InitSetters /\ [][NextSetters]_vars

\* ------------------------------------------------ the terminal on its own
InitTerm == FreshWorkspace /\ InitStore /\ InitIdle /\ autoSave = TRUE

NextTerm ==
  \/ runCommand /\ UNCHANGED <<storeVars, pipeVars, rc, clientVars, asking>>
  \/ \E k \in 1..MaxCmds : checkExit(k) /\ UNCHANGED <<storeVars, pipeVars, rc, clientVars, asking>>
  \/ \E k \in 1..MaxCmds, code \in ExitCodes :
       CommandFinishes(k, code) /\ UNCHANGED <<storeVars, pipeVars, rc, clientVars, asking>>
  \/ \E term \in Terminals, code \in ExitCodes :
       TerminalExits(term, code) /\ UNCHANGED <<storeVars, pipeVars, rc, clientVars, asking>>

SpecTerm == InitTerm /\ [][NextTerm]_vars

\* setInterval calls its callback again and again while the timer is set
SpecTermLive ==
  InitTerm /\ [][NextTerm]_vars /\ \A k \in 1..MaxCmds : WF_termVars(checkExit(k))

\* ---------------------------------------------- the classifier on its own
InitClassify ==
  /\ FreshWorkspace /\ InitStore /\ InitQuiet /\ autoSave = TRUE
  /\ VibeController(DefaultSettings, {}) /\ TerminalManager
  /\ \E text \in ClassTexts : asking = [NotAsked EXCEPT !.errorMsg = text]

NextClassify ==
  \E text \in ClassTexts :
    CallFindMatchingPattern(text)
      /\ UNCHANGED <<storeVars, pipeVars, rc, clientVars, termVars>>

SpecClassify == InitClassify /\ [][NextClassify]_vars

\* ------------------------------------------------------ claims on the store
Last(s) == s[Len(s)]

\* ------------------------------------------------------------ the pipeline
\* C1: a task whose test command fails on every run, the recovery calls
\* succeeding, has its test command run exactly 3 times; then the warning is
\* logged and testAndFix returns, the quality check of the task is run, and the
\* run goes on with the next task (or, after the last, with git) without
\* startAutoMode failing or the orchestrator leaving Running.
C1_Exhausted ==
  \A c \in Calls :
    /\ call[c].runs <= 3
    /\ call[c].warned =>
         /\ call[c].runs = 3 /\ call[c].fixes = 3 /\ call[c].patches = 3
         /\ ~call[c].passed
         /\ call[c].pc = "quality"

C1_Continues ==
  \A c \in Calls :
    /\ (call[c].pc = "fixWrite" /\ call[c].patches = 2 /\ call'[c].patches = 3) =>
         /\ call'[c].warned
         /\ call'[c].pc = "quality"
    /\ (call[c].warned /\ call'[c] # call[c]) =>
         /\ call'[c].pc \in {"gen", "git1"}
         /\ call'[c].pc = "gen" => call'[c].idx = call[c].idx + 1
         /\ call'[c].pc = "git1" => call[c].idx = Len(call[c].tasks)
         /\ ~call'[c].failed
         /\ isRunning' = isRunning
         /\ res'[c] = res[c]

C1_RetryThreeTimesThenGoOn == []C1_Exhausted /\ [][C1_Continues]_vars

\* the first task of a run was given up with the warning and the run has
\* called the LLM client for its second task
C1_Witness ==
  \E c \in Calls :
    /\ call[c].warnings = 1
    /\ call[c].pc = "gen"
    /\ call[c].idx = 2

\* C2: a startAutoMode call made while isRunning is set changes nothing of the
\* workspace, the stores, the recovery calls, the running flag or any run in
\* progress, and at no time are two calls between the guard and the finally
\* block.
C2_RejectedStep ==
  (isRunning /\ starts' # starts) =>
    /\ UNCHANGED <<storeVars, rc, isRunning, call, autoSave>>
    /\ \E c \in Calls : res' = [res EXCEPT ![c] = "rejected"]

C2_AtMostOneRun == Cardinality({c \in Calls : InRun(c)}) <= 1

C2_RejectedWhileRunning == [][C2_RejectedStep]_vars /\ []C2_AtMostOneRun

\* one call was rejected while the run of the other is at a task's test
C2_Witness ==
  \E c, d \in Calls :
    /\ res[c] = "rejected"
    /\ call[d].pc = "test"

\* C3: the orchestrator is Running only while an accepted call is between the
\* guard and the finally block: when an accepted call has ended, however it
\* ended, isRunning is false again.
C3_IdleAfterEnd == isRunning => \E c \in Calls : InRun(c)

\* C8: the record of every writeFile call that has resolved, on the store of
\* the controller or on the store of the recovery engine, is in the log that
\* .vibe/changeHistory.json holds.
C8_DurableHoldsCompleted ==
  \A r \in completed : \E i \in 1..Len(durable.log) : durable.log[i] = r

\* the versions of a log, in order
Versions(log) == [i \in 1..Len(log) |-> log[i].version]

\* C9 (as stated): when a task whose file had no record is given up with the
\* warning, the controller's history of the file holds 3 records: versions 1..3.
C9_ThreeRecords ==
  \A c \in Calls :
    (call[c].warned /\ call[c].base = 0) =>
      Versions(getChangeHistory("ctl", call[c].tasks[call[c].idx].file)) = <<1, 2, 3>>

\* C9 (amended): when a task whose file had no record is given up with the
\* warning, the controller's history of the file holds 4 records, versions
\* 1..4: the generated code and the three patches.
C9_FourRecords ==
  \A c \in Calls :
    (call[c].warned /\ call[c].base = 0) =>
      /\ Versions(getChangeHistory("ctl", call[c].tasks[call[c].idx].file)) = <<1, 2, 3, 4>>
      /\ call[c].pc = "quality"

\* a task of a fresh workspace was given up with the warning
C9_Witness ==
  \E c \in Calls :
    /\ call[c].warned /\ call[c].base = 0
    /\ call[c].idx = 1

\* C10: when the LLM client is asked for a patch of an error text that one of
\* the two dependency patterns matches, analyzeAndFix has run, to completion,
\* an install command that ends with the name the pattern captured.
C10_Captures(errorMsg) ==
  {<<"pip install ">> \o m[1] : m \in {RegexExec(errorMsg, PyModulePattern)} \ {<<>>}}
    \cup
  {<<"npm install ">> \o m[1] : m \in {RegexExec(errorMsg, NodeModulePattern)} \ {<<>>}}

C10_InstallBeforePatch ==
  \A t \in Threads :
    (rc[t].pc \in {"llm", "ok"} /\ C10_Captures(rc[t].errorMsg) # {}) =>
      \E k \in 1..Len(rc[t].ran) : rc[t].ran[k] \in C10_Captures(rc[t].errorMsg)

\* the LLM client is asked for a patch after an npm install of a module
C10_Witness ==
  \E t \in Threads :
    /\ rc[t].pc = "llm"
    /\ rc[t].ran = <<<<"npm install ", "p">>>>

\* C14: an error raised in an accepted run by the scaffold, the parser, the
\* code generation, a file write of the run, the recovery engine, a git command
\* or the CI file ends the call with that failure: the catch block has logged
\* and rethrown it, and the call settles as rejected.
C14_Raised(c) ==
  /\ call'[c] # call[c]
  /\ \/ call[c].pc \in {"cfgWrite", "genWrite", "fixWrite", "ciWrite"} /\ wr[c].pc = "err"
     \/ call[c].pc = "fix" /\ rc[c].pc = "err"
     \/ call[c].pc \in {"mkSrc", "mkTest", "gen", "git1", "git2", "git3"} /\ faults' # faults
     \/ call[c].pc = "parse" /\ call'[c].tasks = <<>>

C14_Rethrown(c) ==
  \/ call'[c].pc = "saveAll" /\ call'[c].failed
  \/ call'[c] = IdleCall /\ res'[c] = "err"

C14_Step ==
  \A c \in Calls :
    /\ C14_Raised(c) => C14_Rethrown(c)
    /\ (call[c].pc = "saveAll" /\ call[c].failed /\ call'[c] # call[c]) => res'[c] = "err"

C14_ErrorsAreRethrown == [][C14_Step]_vars

\* a run that had parsed its tasks ended in the catch block and its call was
\* rejected
C14_Witness ==
  \E c \in Calls :
    /\ call[c].pc = "saveAll"
    /\ call[c].failed
    /\ call[c].idx = 2

\* C15: the run works on one task at a time, in the order of the parser's
\* list: the task index goes from i to i + 1 only when the quality check of
\* task i has settled, every write, test and recovery call in flight is for
\* the current task, and git starts only after the quality check of the last.
C15_OneTask ==
  \A c \in Calls :
    /\ call[c].pc \in {"gen", "genWrite", "test", "fix", "fixWrite", "quality"} =>
         call[c].idx \in 1..Len(call[c].tasks)
    /\ call[c].pc \in {"genWrite", "fixWrite"} =>
         wr[c].path = call[c].tasks[call[c].idx].file
    /\ call[c].pc = "fix" => rc[c].filePath = call[c].tasks[call[c].idx].file
    /\ call[c].pc # "fix" => rc[c] = IdleFix
    /\ call[c].pc \in {"git1", "git2", "git3", "ciWrite"} =>
         call[c].idx = Len(call[c].tasks)

C15_Step ==
  \A c \in Calls :
    /\ call'[c].idx # call[c].idx =>
         \/ call'[c] = IdleCall
         \/ /\ call'[c].idx = call[c].idx + 1
            /\ call'[c].pc = "gen"
            /\ call[c].pc \in {"parse", "quality"}
            /\ call'[c].tasks = IF call[c].pc = "parse" THEN call'[c].tasks ELSE call[c].tasks
    /\ (call'[c].pc = "git1" /\ call[c].pc # "git1") => call[c].pc = "quality"

C15_TasksInOrder == []C15_OneTask /\ [][C15_Step]_vars

\* the test of the second task is run
C15_Witness ==
  \E c \in Calls :
    /\ call[c].pc = "test"
    /\ call[c].idx = 2

\* C16: the quality check of a task is entered once, from the end of the
\* task's test/fix loop; when it settles, passed or failed, the run goes on with
\* the next task (or git): no recovery call, no write, no retry, no error.
C16_Step ==
  \A c \in Calls :
    /\ (call'[c].pc = "quality" /\ call[c].pc # "quality") =>
         /\ call[c].pc \in {"test", "fixWrite"}
         /\ call'[c].idx = call[c].idx
    /\ (call[c].pc = "quality" /\ call'[c] # call[c]) =>
         /\ call'[c].pc \in {"gen", "git1"}
         /\ call'[c].pc = "gen" => call'[c].idx = call[c].idx + 1
         /\ call'[c].lint \in {"none", "passed", "issues"}
         /\ ~call'[c].failed
         /\ UNCHANGED <<rc, wr, isRunning, res, faults, storeVars>>

C16_QualityBestEffort == [][C16_Step]_vars

\* the quality command of the first task failed and the run is at the second
C16_Witness ==
  \E c \in Calls :
    /\ call[c].lint = "issues"
    /\ call[c].pc = "gen"
    /\ call[c].idx = 2

\* ------------------------------------------------------- the recovery engine
\* C11: when the install command fails, analyzeAndFix logs the failure and
\* fails with it: no prompt has been built, the LLM client has not been called
\* and no patch is returned.
C11_FailedInstall ==
  \A t \in Threads :
    rc[t].error = "DependencyInstallFailed" =>
      /\ rc[t].pc = "err"
      /\ "DependencyInstallFailed" \in rc[t].logged
      /\ rc[t].prompt = NoPrompt
      /\ rc[t].fixed = ""

C11_InstallStep ==
  \A t \in Threads :
    /\ (rc[t].pc = "install" /\ faults' # faults) =>
         /\ rc'[t].pc = "err"
         /\ rc'[t].error = "DependencyInstallFailed"
    /\ (rc[t].error = "DependencyInstallFailed" /\ rc'[t] # rc[t]) =>
         /\ rc'[t].pc = "idle"
         /\ t = "ui" => ret'[t] = [kind |-> "FixFailed", text |-> "DependencyInstallFailed",
                                   log |-> <<>>]

C11_InstallFailureIsFatal == []C11_FailedInstall /\ [][C11_InstallStep]_vars

\* a call of analyzeAndFix has failed with the error of the install command
C11_Witness ==
  /\ ret["ui"].kind = "FixFailed"
  /\ ret["ui"].text = "DependencyInstallFailed"

\* C12: once analyzeAndFix runs an install command or calls the LLM client, the
\* snapshot write has been attempted (and has settled, created or failed); the
\* snapshot is a write of the content read, '' for an unreadable file, under
\* .vibe/backups on the store of the recovery engine.
C12_SnapshotFirst ==
  \A t \in Threads :
    /\ (rc[t].pc \in {"install", "llm", "ok"} \/ rc[t].ran # <<>>
          \/ rc[t].error \in {"DependencyInstallFailed", "ProviderError"}) =>
         rc[t].snapshot \in {"BackupCreated", "BackupFailed"}
    /\ rc[t].pc = "snap" =>
         /\ wr[t].pc # "idle"
         /\ wr[t].fm = "rec"
         /\ wr[t].content = rc[t].original
         /\ SubSeq(wr[t].path, 1, Len(BackupsDir)) = BackupsDir
         /\ rc[t].ran = <<>> /\ rc[t].prompt = NoPrompt

\* an install command is being run for an unreadable file after the snapshot
\* write was rejected
C12_Witness ==
  \E t \in Threads :
    /\ rc[t].pc = "install"
    /\ rc[t].snapshot = "BackupFailed"
    /\ "ContextReadFailed" \in rc[t].logged

\* C13: a failed read of the file and a rejected snapshot write do not make
\* analyzeAndFix fail: the call goes on to the dependency check and the prompt,
\* whose context is the content read ('' after a failed read), and the patch
\* returned is the text of the LLM client.
C13_Degraded ==
  \A t \in Threads :
    /\ rc[t].pc \in {"llm", "ok"} =>
         /\ rc[t].prompt # NoPrompt
         /\ rc[t].prompt.context = rc[t].original
         /\ "ContextReadFailed" \in rc[t].logged => rc[t].prompt.context = ""
    /\ rc[t].pc = "ok" => rc[t].fixed \in FixedCode /\ rc[t].error = "none"
    /\ rc[t].pc = "err" =>
         rc[t].error \in {"CreateDirectoryFailed", "DependencyInstallFailed", "ProviderError"}

C13_DegradedStep ==
  \A t \in Threads :
    /\ (rc[t].pc = "ctx" /\ rc'[t] # rc[t]) =>
         /\ rc'[t].pc = "snap"
         /\ rc[t].filePath \notin DOMAIN disk =>
              rc'[t].original = "" /\ "ContextReadFailed" \in rc'[t].logged
    /\ (rc[t].pc = "snap" /\ rc'[t] # rc[t]) => rc'[t].pc \in {"install", "llm"}

C13_ReadAndSnapshotFailuresNotFatal == []C13_Degraded /\ [][C13_DegradedStep]_vars

\* a patch was returned although the read failed and the snapshot was rejected
C13_Witness ==
  \E t \in Threads :
    /\ rc[t].pc = "ok"
    /\ {"ContextReadFailed", "BackupFailed"} \subseteq rc[t].logged

\* ------------------------------------------------------ the file store
\* C4: in every FileManager the versions recorded for a path are 1, 2, ..., k in
\* append order: no gap and no repeat, whatever writes and reverts were called
\* one after the other.
C4_VersionsGapless ==
  \A f \in FMs : \A p \in StorePaths :
    LET s == SelectPath(mem[f], p)
    IN \A i \in 1..Len(s) : s[i].version = i

\* a revert has completed on a path that now has three or more versions, next
\* to records of the other path
C4_Witness ==
  /\ ret["ui"].kind = "reverted"
  /\ Len(SelectPath(mem["ctl"], SrcA)) >= 3
  /\ Len(SelectPath(mem["ctl"], SrcB)) >= 1

\* C5: a write to a path that holds a file records 'modified' and has stored,
\* before the new content is applied, a backup named for the new version that
\* holds the file's present content; a write to a path without a file records
\* 'created' and stores no backup.
C5_BackupIsPreImage ==
  \A t \in Threads :
    wr[t].pc \in {"save", "apply"} =>
      LET w == wr[t]
          name == HistoryFileName(w.path, w.version, w.ts)
      IN /\ Last(mem[w.fm]) = ChangeRecord(w.path, w.version, w.ts, w.action)
         /\ IF w.path \in DOMAIN disk
            THEN /\ w.action = "modified"
                 /\ name \in DOMAIN hist
                 /\ hist[name] = disk[w.path]
            ELSE /\ w.action = "created"
                 /\ name \notin DOMAIN hist

\* a write is about to replace a file by a different content
C5_Witness ==
  /\ wr["ui"].pc = "apply"
  /\ wr["ui"].action = "modified"
  /\ wr["ui"].content # disk[wr["ui"].path]

AppendOnlyStep ==
  \A f \in FMs :
    initpc[f] = "done" =>
      \/ mem'[f] = mem[f]
      \/ /\ Len(mem'[f]) = Len(mem[f]) + 1
         /\ SubSeq(mem'[f], 1, Len(mem[f])) = mem[f]

OneRecordPerWrite ==
  \A t \in Threads :
    wr[t].pc = "ok" =>
      /\ Len(mem[wr[t].fm]) = wr[t].len0 + 1
      /\ Last(mem[wr[t].fm]).filePath = wr[t].path
      /\ Last(mem[wr[t].fm]).version = Len(SelectPath(mem[wr[t].fm], wr[t].path))

C7_AppendOnly == [][AppendOnlyStep]_vars /\ []OneRecordPerWrite

\* a revert has completed and its record follows three earlier ones
C7_Witness ==
  /\ rv["ui"].pc = "write" /\ wr["ui"].pc = "ok"
  /\ Len(mem["ctl"]) >= 4 /\ rv["ui"].version = 2

\* ------------------------------------------------------- the LLM clients
\* C17: createLLMClient called while the provider name it reads (lowercased)
\* is none of the names of its switch does not raise: it calls logger.warn and
\* returns an OllamaClient, which the controller then holds.
C17_Unknown == made.provider \notin ProviderTable

C17_UnknownProviderFallsBack ==
  C17_Unknown =>
    /\ ~made.raised
    /\ made.warned
    /\ made.client.variant = "ollama"
    /\ llm["controller"] = Object(built, made.client)

\* updateProvider has run to its end with an unknown name configured
C17_Witness ==
  /\ C17_Unknown
  /\ built > 1 /\ upd.pc = "idle" /\ upd.res = "ok"
  /\ llm["controller"].id = built

\* C18: an OllamaClient is bound to the first of its candidates (custom,
\* local, docker) that answers the probe, and to the first candidate when
\* none answers.
RECURSIVE C18_FirstReachable(_, _)
C18_FirstReachable(urls, live) ==
  IF urls = <<>> THEN ""
  ELSE IF Head(urls) \in live THEN Head(urls)
       ELSE C18_FirstReachable(Tail(urls), live)

C18_Expected(urls, live) ==
  IF C18_FirstReachable(urls, live) = "" THEN Head(urls)
  ELSE C18_FirstReachable(urls, live)

C18_BindsFirstReachable ==
  llm["controller"].variant = "ollama" =>
    llm["controller"].base = C18_Expected(OllamaUrls(settings), reachable)

\* C19: once updateProvider has replaced the client of the controller, every
\* generateCode call of AutoCoder and of ErrorRecovery goes to the client
\* object the controller holds, the one created for the new provider.
C19_Step ==
  (llm["controller"].id > 1 /\ Len(asked') = Len(asked) + 1) =>
    asked'[Len(asked')].client = llm["controller"].id

C19_CallsReachNewClient == [][C19_Step]_vars

\* C20: a revertToVersion(path, v) call made while the log holds no record
\* with exactly that path and version ends with the version-not-found error,
\* and leaves the files, the history copies, the log in memory and the log on
\* disk as they were; no read and no write is started.
C20_Step ==
  \A p \in StorePaths, v \in 1..MaxOps :
    (FindRecord(mem["ctl"], p, v) = <<>> /\ CallRevertToVersion("ui", p, v)) =>
      /\ ret'["ui"].kind = "VersionNotFound"
      /\ UNCHANGED <<disk, hist, durable, mem, wr, rv>>

C20_MissingVersionChangesNothing == [][C20_Step]_vars

\* the call failed although every path has records: the version was missing
C20_Witness ==
  /\ ret["ui"].kind = "VersionNotFound"
  /\ \A p \in StorePaths : SelectPath(mem["ctl"], p) # <<>>

\* ------------------------------------------------------- the stop request
\* C21: a stopAuto request made while a run is in progress changes nothing of
\* the orchestrator or of the run; isRunning is true as long as a run is
\* before its finally block, so the check at the head of the task loop never
\* breaks, and git starts only when the index has reached the last task.
C21_StopStep ==
  stops' # stops =>
    /\ isRunning
    /\ UNCHANGED <<isRunning, autoSave, call, res, starts, rc, wr, rv, disk, mem>>

C21_RunGoesOn ==
  \A c \in Calls :
    /\ call[c].pc \notin {"idle", "saveAll"} => isRunning
    /\ call[c].pc \in {"git1", "git2", "git3", "ciWrite"} =>
         call[c].idx = Len(call[c].tasks)

C21_Finished ==
  \E c \in Calls :
    /\ stops = 1 /\ starts = 1
    /\ call[c].pc = "git1" /\ call[c].idx = 2

\* ----------------------------------------------------------- the terminal
\* C22: when the runCommand call before it has completed, a runCommand call
\* sends its command to the terminal of that call: no terminal is created.
C22_Step ==
  (Len(runs') = Len(runs) + 1 /\ runs # <<>> /\ runs[Len(runs)].promise # "pending") =>
    /\ runs'[Len(runs')].terminal = runs[Len(runs)].terminal
    /\ created' = created

C22_SameSession == [][C22_Step]_vars

\* C23: a runCommand call whose command has finished is settled in the end,
\* resolved when the command's exit code is 0 and rejected otherwise; it is
\* settled at most once, and its timer is cleared once it is settled.
C23_Outcome ==
  \A k \in 1..Len(runs) :
    /\ runs[k].promise = "resolved" => runs[k].finished = <<0>>
    /\ runs[k].promise = "rejected" =>
         (runs[k].finished # <<>> /\ runs[k].finished # <<0>>)
    /\ runs[k].settles <= 1
    /\ runs[k].promise # "pending" => ~runs[k].timer

C23_Settles ==
  \A k \in 1..MaxCmds :
    (k <= Len(runs) /\ runs[k].finished # <<>>) ~>
      (k <= Len(runs) /\ runs[k].promise # "pending")

C23_SettlesByExitCode == []C23_Outcome /\ C23_Settles

\* --------------------------------------------------------- the classifier
\* the patterns of the table that match a text
C24_Matching(text) ==
  {k \in 1..Len(errorPatterns) : RegexExec(text, errorPatterns[k].pat) # <<>>}

\* the template of pattern k with the token captured from the text in place of $1
C24_Filled(text, k) ==
  <<errorPatterns[k].head>> \o RegexExec(text, errorPatterns[k].pat)[1]
    \o <<errorPatterns[k].tail>>

\* C24: findMatchingPattern returns the template of the first pattern of the
\* table that matches the text, with the captured token in the place of $1,
\* whatever later patterns match; it returns null only when none matches.
C24_FirstMatchSubstituted ==
  asking.returned =>
    asking.pattern = IF C24_Matching(asking.errorMsg) = {} THEN <<>>
                     ELSE C24_Filled(asking.errorMsg, Min(C24_Matching(asking.errorMsg)))

\* what does hold: the template is that of the first matching pattern, and
\* null is returned exactly when no pattern matches
C24_FirstMatchWins ==
  asking.returned =>
    IF C24_Matching(asking.errorMsg) = {} THEN asking.pattern = <<>>
    ELSE LET k == Min(C24_Matching(asking.errorMsg))
         IN /\ asking.pattern # <<>>
            /\ asking.pattern[1] = errorPatterns[k].head
            /\ asking.pattern[Len(asking.pattern)] = errorPatterns[k].tail

\* a text that two patterns match, the later one of the table further left
C24_Overlap ==
  /\ asking.returned
  /\ asking.errorMsg = <<"ImportError: ", "SyntaxError: ", "p">>
  /\ asking.pattern = <<"Fix the syntax error: ", "p", "">>

\* ------------------------------------------------------ reading the history
\* the records of a log that a predicate on the path selects, in log order
C25_Positions(log, filePath) == {i \in 1..Len(log) : log[i].filePath = filePath}

C25_InOrder(result, log, S) ==
  /\ Len(result) = Cardinality(S)
  /\ \A j \in 1..Len(result) :
       \E i \in S : Cardinality({k \in S : k <= i}) = j /\ result[j] = log[i]

C25_Untouched == UNCHANGED <<mem, durable, disk, hist>>

\* C25 as stated: getChangeHistory() returns the whole log in the order the
\* records were appended, getChangeHistory(path) returns exactly the records
\* of that path in the same order, and the log is unchanged.
C25_StatedStep ==
  /\ CallGetChangeHistory("ui", Omitted) =>
       ret'["ui"].log = mem["ctl"] /\ C25_Untouched
  /\ \A p \in StorePaths \cup {<<>>} :
       CallGetChangeHistory("ui", p) =>
         /\ C25_InOrder(ret'["ui"].log, mem["ctl"], C25_Positions(mem["ctl"], p))
         /\ C25_Untouched

C25_AmendedStep ==
  /\ \A p \in {Omitted, <<>>} :
       CallGetChangeHistory("ui", p) =>
         ret'["ui"].log = mem["ctl"] /\ C25_Untouched
  /\ \A p \in StorePaths :
       CallGetChangeHistory("ui", p) =>
         /\ C25_InOrder(ret'["ui"].log, mem["ctl"], C25_Positions(mem["ctl"], p))
         /\ C25_Untouched

C26_EfficientIsCooler ==
  \A i, j \in 1..Len(asked) :
    (/\ asked[i].by = "autoCoder" /\ asked[j].by = "autoCoder"
     /\ asked[i].performance = "efficient" /\ asked[j].performance # "efficient") =>
      asked[i].temperature < asked[j].temperature

\* ---------------------------------------------------------------- C27
\* a model or key update that went through, on a client that has the setter
C27_Set(name) ==
  /\ upd.pc = "await" /\ upd.op = name /\ upd'.pc = "idle" /\ upd'.res = "ok"
  /\ IF name = "model" THEN HasSetModel(llm["controller"].variant)
                       ELSE HasSetApiKey(llm["controller"].variant)

\* the same update on a client that lacks the setter
C27_NoSetter(name) ==
  /\ upd.pc = "await" /\ upd.op = name /\ upd'.pc = "idle" /\ upd'.res = "ok"
  /\ IF name = "model" THEN ~HasSetModel(llm["controller"].variant)
                       ELSE ~HasSetApiKey(llm["controller"].variant)

C27_Step ==
  /\ C27_Set("model") =>
       /\ built' = built
       /\ llm'["controller"] = [llm["controller"] EXCEPT !.model = upd.provider]
       /\ \A h \in Holders :
            llm'[h] = IF llm[h].id = llm["controller"].id
                      THEN llm'["controller"] ELSE llm[h]
  /\ C27_Set("key") =>
       /\ built' = built
       /\ llm'["controller"] = [llm["controller"] EXCEPT !.apiKey = upd.provider]
       /\ \A h \in Holders :
            llm'[h] = IF llm[h].id = llm["controller"].id
                      THEN llm'["controller"] ELSE llm[h]
  /\ (C27_NoSetter("model") \/ C27_NoSetter("key")) =>
       /\ built' = built + 1
       /\ llm'["controller"].id = built + 1
       /\ \A h \in Holders \ {"controller"} : llm'[h] = llm[h]
  /\ (upd.op \in {"model", "key"} /\ built' # built) =>
       (C27_NoSetter("model") \/ C27_NoSetter("key"))
  /\ \A h \in Holders :
       (Len(asked') = Len(asked) + 1 /\ asked'[Len(asked')].by = h
          /\ llm[h].id = llm["controller"].id) =>
         /\ asked'[Len(asked')].model = llm["controller"].model
         /\ asked'[Len(asked')].apiKey = llm["controller"].apiKey

C27_WitnessKey ==
  /\ built = 2
  /\ upd.op = "key" /\ upd.res = "ok" /\ upd.pc = "idle"
  /\ llm["controller"].id = 2

\* ---------------------------------------------------------------- C28
\* C28: no two records of a FileManager's log carry the same path and the
\* same version, also when writeFile calls on one path overlap (a restore
\* from the history view during a run that writes the same file)
C28_VersionsUnique ==
  \A f \in FMs : \A i, j \in 1..Len(mem[f]) :
     (mem[f][i].filePath = mem[f][j].filePath /\ mem[f][i].version = mem[f][j].version)
       => i = j

\* ---------------------------------------------------------------- C29
\* the step in which the history load of f settles
C29_LoadSettles(f) == initpc[f] = "load" /\ initpc'[f] # "load"

C29_Step ==
  \A f \in FMs :
     C29_LoadSettles(f) =>
       \A i \in 1..Len(mem[f]) : \E j \in 1..Len(mem'[f]) : mem'[f][j] = mem[f][i]

\* C29: the records writeFile appended before the history load started by
\* the constructor has settled are still in the log when it settles
C29_EarlyRecordsKept == [][C29_Step]_vars

\* ---------------------------------------------------------------- C30
\* a task whose test has passed: on run k, after k-1 recovery calls and k-1
\* patches, without the warning, and past the test loop
C30_Passed ==
  \A c \in Calls :
    call[c].passed =>
      /\ call[c].pc \notin {"gen", "genWrite", "test", "fix", "fixWrite"}
      /\ call[c].runs \in 1..MaxAttempts
      /\ call[c].fixes = call[c].runs - 1
      /\ call[c].patches = call[c].runs - 1
      /\ ~call[c].warned

\* one recovery call per failed run, and none pending once the test passed
C30_OncePerFailure ==
  \A c \in Calls :
    /\ call[c].pc \in {"fix", "fixWrite"} =>
         (call[c].fixes = call[c].runs /\ call[c].patches = call[c].runs - 1)
    /\ call[c].pc = "test" =>
         (call[c].fixes = call[c].runs - 1 /\ call[c].patches = call[c].runs - 1)

C30_AfterPass ==
  \A c \in Calls :
    (call[c].passed /\ call'[c] # call[c]) =>
      /\ call'[c].pc \notin {"test", "fix", "fixWrite"}
      /\ call'[c].warnings = call[c].warnings
      /\ rc'[c] = rc[c]

\* C30: the Recovery Engine is called once per failed test run and never
\* after a passing one: when the test first passes on run k (1 <= k <= 3),
\* k-1 recovery calls and k-1 patch writes have been made, no test run or
\* recovery call of the task follows, and no exhaustion warning is logged
C30_FixOncePerFailedRun ==
  []C30_Passed /\ []C30_OncePerFailure /\ [][C30_AfterPass]_vars

\* the test of a task passed on its third run
C30_Witness ==
  \E c \in Calls :
    /\ call[c].passed
    /\ call[c].runs = 3 /\ call[c].fixes = 2 /\ call[c].patches = 2

\* ---------------------------------------------------------------- C31
\* the task of c given up: three runs, a patch after each, and the file
\* holding the third patch as its last version
C31_Exhausted ==
  \A c \in Calls :
    call[c].warned =>
      LET file == call[c].tasks[call[c].idx].file
          log == SelectPath(mem["ctl"], file)
      IN /\ call[c].runs = MaxAttempts
         /\ call[c].patches = call[c].runs
         /\ Len(log) = call[c].base + 1 + call[c].patches
         /\ file \in DOMAIN disk /\ disk[file] \in FixedCode

\* a test run starts only when every patch written so far has been tested
C31_RunsAheadOfPatches ==
  \A c \in Calls :
    call[c].pc = "test" => call[c].runs = call[c].patches + 1

\* once the third patch is written no test run of the task is started
C31_NoRunAfterThird ==
  \A c \in Calls :
    /\ (call[c].pc = "fixWrite" /\ call'[c].patches = MaxAttempts) =>
         (call'[c].pc = "quality" /\ call'[c].warned /\ call'[c].runs = call[c].runs)
    /\ (call[c].warned /\ call'[c].idx = call[c].idx) => call'[c].runs = call[c].runs

\* C31: when the three test runs of a task fail, a patch is written after
\* each failure, the third included, and no test run follows the third
\* patch: at exhaustion the file holds a patch that was never tested and the
\* patch writes are as many as the test runs
C31_LastPatchUntested ==
  []C31_Exhausted /\ []C31_RunsAheadOfPatches /\ [][C31_NoRunAfterThird]_vars

\* a task given up with its third patch applied to the file
C31_Witness ==
  \E c \in Calls :
    /\ call[c].warned /\ call[c].pc = "quality"
    /\ call[c].patches = 3 /\ call[c].runs = 3
    /\ disk[call[c].tasks[call[c].idx].file] \in FixedCode

\* ---------------------------------------------------------------- C32
\* the step of the run of c that takes the rejection of analyzeAndFix
C32_RecoveryFailed(c) ==
  call[c].pc = "fix" /\ rc[c].pc = "err" /\ call'[c] # call[c]

\* the run of c is in its finally block after an error, or just ended by one
C32_Aborted(c) ==
  \/ call[c].pc = "saveAll" /\ call[c].failed
  \/ call[c] = IdleCall /\ res[c] = "err"

C32_Step ==
  \A c \in Calls :
    /\ C32_RecoveryFailed(c) =>
         /\ wr'[c] = IdleWrite /\ wr' = wr
         /\ mem' = mem /\ disk' = disk /\ durable' = durable
         /\ ~isRunning'
         /\ \/ call'[c].pc = "saveAll" /\ call'[c].failed /\ res'[c] = res[c]
                  /\ call'[c].patches = call[c].patches
            \/ call'[c] = IdleCall /\ res'[c] = "err"
    /\ (call[c].pc = "saveAll" /\ call[c].failed /\ call'[c] # call[c]) =>
         /\ call'[c] = IdleCall /\ res'[c] = "err"
         /\ wr' = wr /\ rc' = rc /\ mem' = mem /\ disk' = disk

\* C32: a failure of the Recovery Engine in the retry loop of a task (its
\* LLM call or its dependency install) ends the run: no patch is written for
\* the attempt, no step of a later task and no git or CI step is run, and
\* startAutoMode rejects
C32_RecoveryFailureAborts == [][C32_Step]_vars

\* the recovery call of the first of two tasks has failed and the run has
\* gone to its finally block with the second task never entered
C32_Witness ==
  \E c \in Calls :
    /\ C32_Aborted(c) /\ call[c].pc = "saveAll"
    /\ call[c].idx = 1 /\ Len(call[c].tasks) = 2
    /\ call[c].fixes = call[c].patches + 1
    /\ Len(SelectPath(mem["ctl"], call[c].tasks[1].file)) = call[c].base + 1 + call[c].patches
    /\ rc[c] = IdleFix /\ wr[c] = IdleWrite

\* ---------------------------------------------------------------- C33
\* p lies in the backup namespace
C33_IsSnapshot(p) ==
  Len(p) > Len(BackupsDir) /\ SubSeq(p, 1, Len(BackupsDir)) = BackupsDir

\* no step of analyzeAndFix touches a source file or the controller's log
C33_TargetsUntouched ==
  /\ \A p \in StorePaths :
       /\ (p \in DOMAIN disk') = (p \in DOMAIN disk)
       /\ p \in DOMAIN disk => disk'[p] = disk[p]
  /\ mem'["ctl"] = mem["ctl"]

\* what the engine writes through its FileManager is a snapshot
C33_OnlySnapshots ==
  /\ \A t \in Threads : wr[t].pc # "idle" => C33_IsSnapshot(wr[t].path)
  /\ \A i \in 1..Len(mem["rec"]) : C33_IsSnapshot(mem["rec"][i].filePath)
  /\ \A p \in DOMAIN disk : p \in StorePaths \/ C33_IsSnapshot(p)

\* C33: analyzeAndFix never writes the file at filePath: its only write to
\* the file store is the snapshot in the backup namespace, and when it
\* returns or fails the target file is as it was before the call, the patch
\* being left to the caller
C33_PatchLeftToCaller == []C33_OnlySnapshots /\ [][C33_TargetsUntouched]_vars

\* analyzeAndFix returned a patch that differs from the file, whose snapshot
\* it has written
C33_Witness ==
  /\ ret["ui"].kind = "fixed" /\ ret["ui"].text = "x=2"
  /\ SrcA \in DOMAIN disk /\ disk[SrcA] = "x=1"
  /\ \E p \in DOMAIN disk : C33_IsSnapshot(p) /\ disk[p] = "x=1"

\* ---------------------------------------------------------------- C34
\* updateProvider(p) went through for a provider p of the table
C34_Updated ==
  /\ upd.pc = "await" /\ upd.op = "provider"
  /\ upd'.pc = "idle" /\ upd'.res = "ok"
  /\ ToLowerCase(upd.provider) \in ProviderTable

C34_Step ==
  C34_Updated =>
    /\ made'.provider = ToLowerCase(getConfiguration(settings', "provider", "ollama"))
    /\ made'.client.variant = ToLowerCase(upd.provider)
    /\ llm'["controller"].variant = ToLowerCase(upd.provider)

\* C34: the router selects the variant by the provider name the controller's
\* update wrote last (the setting getProvider reads): after updateProvider(p)
\* for a provider p of the table, createLLMClient constructs the variant of p
C34_RouterReadsWrittenProvider == [][C34_Step]_vars

\* ---------------------------------------------------------------- C35
\* the name of the table that the configured name spells, <<>> when none
C35_Spelled(name) ==
  IF name = Undefined THEN <<"ollama">>
  ELSE IF name \in ProviderTable THEN <<name>>
  ELSE IF name = "HuggingFace" THEN <<"huggingface">>
  ELSE IF \E p \in CasedNames : p[1] = name
       THEN <<(CHOOSE p \in CasedNames : p[1] = name)[2]>>
  ELSE <<>>

\* C35: for a provider name of the table written in any letter case the
\* router returns the variant of that provider and logs no fallback warning;
\* the default variant stands in only for names that are not in the table
C35_CaseInsensitiveLookup ==
  LET spelled == C35_Spelled(settings["vibecoding.provider"])
  IN IF spelled # <<>>
     THEN made.client.variant = spelled[1] /\ ~made.warned /\ ~made.raised
     ELSE made.client.variant = "ollama" /\ made.warned /\ ~made.raised

\* a name of the table given in capitals got its own variant, which the
\* pipeline has called
C35_Witness ==
  /\ settings["vibecoding.provider"] = "MISTRAL.AI"
  /\ made.client.variant = "mistral.ai" /\ ~made.warned
  /\ built = 2 /\ llm["controller"].variant = "mistral.ai"
  /\ Len(asked) > 0 /\ asked[1].client = 1

\* ---------------------------------------------------------------- C36
\* the client the pipeline calls is a stub
C36_StubSelected == llm["autoCoder"].variant \in StubProviders

\* the router built the stub of the configured name, without the fallback,
\* and the run gets no further than the generation of its first task
C36_StubBuilt ==
  C36_StubSelected =>
    /\ llm["autoCoder"].variant = settings["vibecoding.provider"]
    /\ ~made.warned /\ ~made.raised
    /\ ThrownAtOnce(llm["autoCoder"].variant) = "Not implemented"
    /\ \A c \in Calls :
         /\ call[c].pc \in {"idle", "mkSrc", "mkTest", "cfgWrite", "parse", "gen", "saveAll"}
         /\ call[c].idx <= 1 /\ call[c].runs = 0
         /\ \A i \in 1..Len(call[c].tasks) :
              SelectPath(mem["ctl"], call[c].tasks[i].file) = <<>>

\* the generation of the first task fails without any fault of the
\* environment, and the run ends rejected with the orchestrator idle
C36_Step ==
  \A c \in Calls :
    (C36_StubSelected /\ call[c].pc = "gen" /\ call'[c] # call[c]) =>
      /\ faults' = faults
      /\ ~isRunning'
      /\ wr' = wr
      /\ \/ call'[c].pc = "saveAll" /\ call'[c].failed
         \/ call'[c] = IdleCall /\ res'[c] = "err"

\* C36: the router constructs each stub variant (no fallback to the
\* default), generateCode of a stub fails on every call with the same
\* not-implemented error and without a request, and a run of the pipeline
\* with a stub selected fails at the generation of its first task and
\* returns to Idle
C36_StubFailsFirstGeneration == []C36_StubBuilt /\ [][C36_Step]_vars

\* a run with the stub of 'claude' ended rejected at its first generation,
\* nothing of the environment having failed
C36_Witness ==
  \E c \in Calls :
    /\ llm["autoCoder"].variant = "claude"
    /\ call[c] = IdleCall /\ res[c] = "err"
    /\ faults = 0 /\ ~isRunning

\* ---------------------------------------------------------------- C37
\* the read of the backup of a 'created' version settles for the caller t
C37_CreatedVersionRead(t) ==
  /\ rv[t].pc = "read" /\ rv'[t] # rv[t]
  /\ LET found == FindRecord(mem[rv[t].fm], rv[t].path, rv[t].version)
     IN found # <<>> /\ found[1].action = "created"

C37_Step ==
  \A t \in Threads :
    C37_CreatedVersionRead(t) =>
      /\ ret'[t].kind = "ReadFailed"
      /\ rv'[t] = IdleRevert
      /\ wr' = wr /\ mem' = mem /\ durable' = durable
      /\ disk' = disk /\ hist' = hist

\* a 'created' record has no backup file
C37_NoBackupOfCreated ==
  \A f \in FMs : \A i \in 1..Len(mem[f]) :
    mem[f][i].action = "created" => mem[f][i].originalPath \notin DOMAIN hist

C38_ApplyFails(t) == wr[t].pc = "apply" /\ wr'[t].pc = "err"

C38_Step ==
  \A t \in Threads :
    C38_ApplyFails(t) =>
      LET rec == ChangeRecord(wr[t].path, wr[t].version, wr[t].ts, wr[t].action)
          log == SelectPath(mem'[wr[t].fm], wr[t].path)
      IN /\ disk' = disk
         /\ log # <<>> /\ log[Len(log)] = rec
         /\ \E i \in 1..Len(durable'.log) : durable'.log[i] = rec
         /\ rec \notin completed'
         /\ NextVersion(mem'[wr[t].fm], wr[t].path) = wr[t].version + 1

\* the caller of a write whose edit was refused gets the error
C38_Raised ==
  \A t \in Threads :
    (wr[t].pc = "err" /\ rv[t].pc = "idle" /\ wr'[t] = IdleWrite) =>
      ret'[t].kind = "WriteFailed"

\* C38: when applying the new content fails, writeFile raises its error
\* with the record of that version already appended and persisted: the file
\* keeps its old content, the log holds a version that was never applied,
\* and the next write of the path takes the following version number
C38_RecordOutlivesFailedApply == [][C38_Step /\ C38_Raised]_vars

\* after a refused edit of version v the next write of the path is under
\* way with version v + 1
C38_Witness ==
  \E i \in 1..Len(mem["ctl"]) :
    LET rec == mem["ctl"][i]
    IN /\ rec \notin completed
       /\ \E j \in 1..Len(durable.log) : durable.log[j] = rec
       /\ wr["ui"].pc # "idle"
       /\ wr["ui"].path = rec.filePath
       /\ wr["ui"].version = rec.version + 1

====
